---- MODULE Spec2Model ----
(***************************************************************************)
(* A model of the AI Buddy core: the scoring policy (policy.py), the       *)
(* recommender (recommender.py), the session/history model (session.py),   *)
(* the evaluators (evaluate.py), the persistence functions (persist.py)    *)
(* and the session orchestrator (buddy.py).                                *)
(*                                                                         *)
(* Numbers.  Skill values are held in hundredths (0.37 is 37), fit values  *)
(* in 600ths (1.0 is 600, so that the mean of one, two or three skill      *)
(* values is a whole number) and scores in 60000ths (a weight in           *)
(* hundredths times a fit in 600ths).  The arithmetic is that of the       *)
(* reals; the rounding of binary floating point is not modelled.           *)
(*                                                                         *)
(* Text.  Free text (interests, tags, activity types) is a sequence of     *)
(* one-character strings, so that lower-casing, trimming and substring     *)
(* search are computed and not assumed.                                    *)
(*                                                                         *)
(* Objects.  Session logs are objects of a heap (logs); a history is a     *)
(* list of references into it, so that two lists can share a log, as the   *)
(* shallow list.copy() of append_attempt makes them do.                    *)
(*                                                                         *)
(* Files.  A file is absent, text that is no JSON, or a JSON value; a      *)
(* save is the steps open temporary file, dump, close, move, each of which *)
(* can fail; a timestamp is a whole number whose text is its digits.       *)
(***************************************************************************)
EXTENDS Integers, Sequences, FiniteSets, TLC

----------------------------------------------------------------------------
(* Bounds of the model *)

\* activities in the pool the catalog is drawn from
PoolSize == 6
\* attempts a history holds at most
MaxAttempts == 3
\* largest timestamp of an attempt handed to append_attempt directly
MaxTime == 2
\* largest k asked of recommend_activities and recent_activity_ids
MaxK == 4
\* smallest k asked is -MinusK
MinusK == 2
\* temporary files lying about when a caller starts a save, at most
MaxTemps == 2

----------------------------------------------------------------------------
(* Text: str.lower(), str.strip(), the "in" of two strings *)

LowerChar(c) ==
    CASE c = "M" -> "m"
      [] c = "P" -> "p"
      [] c = "L" -> "l"
      [] c = "C" -> "c"
      [] c = "D" -> "d"
      [] OTHER -> c

Lower(s) == [i \in 1..Len(s) |-> LowerChar(s[i])]

RECURSIVE LStrip(_)
LStrip(s) == IF s # <<>> /\ Head(s) = " " THEN LStrip(Tail(s)) ELSE s

RECURSIVE RStrip(_)
RStrip(s) ==
    IF s # <<>> /\ s[Len(s)] = " " THEN RStrip(SubSeq(s, 1, Len(s) - 1)) ELSE s

Strip(s) == RStrip(LStrip(s))

\* policy.py normalize_text: s.lower().strip()
normalize_text(s) == Strip(Lower(s))

\* Python's  t in s  for two strings
Contains(s, t) ==
    \E i \in 1..(Len(s) - Len(t) + 1) : SubSeq(s, i, i + Len(t) - 1) = t

\* Python's  x in lst  for a list
InList(x, lst) == \E i \in 1..Len(lst) : lst[i] = x

Wmath == <<"m", "a", "t", "h">>
Wlogic == <<"l", "o", "g", "i", "c">>
Wreading == <<"r", "e", "a", "d", "i", "n", "g">>
Wstorytelling == <<"s", "t", "o", "r", "y", "t", "e", "l", "l", "i", "n", "g">>
Wpuzzles == <<"p", "u", "z", "z", "l", "e", "s">>
Wreasoning == <<"r", "e", "a", "s", "o", "n", "i", "n", "g">>
Wvisual == <<"v", "i", "s", "u", "a", "l">>
Wpicture == <<"p", "i", "c", "t", "u", "r", "e">>
Wdrawing == <<"d", "r", "a", "w", "i", "n", "g">>
Wquick == <<"q", "u", "i", "c", "k">>
Wapplied == <<"a", "p", "p", "l", "i", "e", "d">>
Wfluency == <<"f", "l", "u", "e", "n", "c", "y">>

----------------------------------------------------------------------------
(* Python list slices and the stable sort *)

Min2(a, b) == IF a <= b THEN a ELSE b
Max2(a, b) == IF a >= b THEN a ELSE b

\* the index a slice bound k denotes in a list of length n
SliceIndex(n, k) == IF k >= 0 THEN Min2(k, n) ELSE Max2(n + k, 0)

\* s[:k]
SliceTo(s, k) == SubSeq(s, 1, SliceIndex(Len(s), k))

\* s[k:]
SliceFrom(s, k) == SubSeq(s, SliceIndex(Len(s), k) + 1, Len(s))

\* A list to sort holds pairs [val, key].  Insert x into the descending list
\* s behind every element whose key is not smaller: elements of equal key
\* keep their order of arrival.
\* A sort that reverses an ascending sort: elements of equal key end up in
\* reverse order of arrival.
RECURSIVE InsertDescReversing(_, _)
InsertDescReversing(x, s) ==
    IF s = <<>> THEN <<x>>
    ELSE IF Head(s).key > x.key THEN <<Head(s)>> \o InsertDescReversing(x, Tail(s))
    ELSE <<x>> \o s

RECURSIVE InsertDesc(_, _)
InsertDesc(x, s) ==
    IF s = <<>> THEN <<x>>
    ELSE IF Head(s).key >= x.key THEN <<Head(s)>> \o InsertDesc(x, Tail(s))
    ELSE <<x>> \o s

RECURSIVE SortDescFrom(_, _)
SortDescFrom(s, acc) ==
    IF s = <<>> THEN acc
    ELSE SortDescFrom(Tail(s), InsertDesc(Head(s), acc))

\* sorted(s, key=..., reverse=True) and s.sort(key=..., reverse=True):
\* descending by key, stable
SortDesc(s) == SortDescFrom(s, <<>>)

----------------------------------------------------------------------------
(* policy.py: the fit functions and the scoring policy *)

\* 1.0 as a fit value
One == 600

\* policy.py WEIGHTS, in hundredths
WEIGHTS ==
    [skill_fit |-> 35, interest_fit |-> 20, style_fit |-> 15,
     level_fit |-> 15, time_fit |-> 10, recency_penalty |-> 5]

RECURSIVE SumSeq(_)
SumSeq(s) == IF s = <<>> THEN 0 ELSE Head(s) + SumSeq(Tail(s))

\* dict.get(skill, 0.5) on baseline_skills, in hundredths
SkillOf(child, skill) ==
    IF skill \in DOMAIN child.baseline_skills
    THEN child.baseline_skills[skill]
    ELSE 50

\* [child.baseline_skills.get(skill, 0.5) for skill in activity.skills]
SkillScores(activity, child) ==
    [i \in 1..Len(activity.skills) |-> SkillOf(child, activity.skills[i])]

\* mean(lst, default) of a list of hundredths, as a fit value; default is a
\* fit value
mean(lst, default) ==
    IF lst = <<>> THEN default ELSE (6 * SumSeq(lst)) \div Len(lst)

skill_fit(activity, child) == mean(SkillScores(activity, child), 300)

interest_fit(activity, child) ==
    LET activity_type == normalize_text(activity.type)
        activity_tags == [i \in 1..Len(activity.tags) |-> normalize_text(activity.tags[i])]
        child_interests == [i \in 1..Len(child.interests) |-> normalize_text(child.interests[i])]
    IN  IF InList(activity_type, child_interests) THEN One
        ELSE IF \E i \in 1..Len(activity_tags), j \in 1..Len(child_interests) :
                    \/ Contains(child_interests[j], activity_tags[i])
                    \/ Contains(activity_tags[i], child_interests[j])
             THEN One
        ELSE 240

\* activity.format is one of the two literals "qna" and "freeform", which
\* lower() and strip() leave as they are
style_fit(activity, child) ==
    LET activity_type == normalize_text(activity.type)
        activity_tags == [i \in 1..Len(activity.tags) |-> normalize_text(activity.tags[i])]
        activity_format == activity.format
        AnyTag(preferred) == \E i \in 1..Len(activity_tags) : activity_tags[i] \in preferred
    IN  IF child.learning_style = "visual"
          THEN IF AnyTag({Wvisual, Wpicture, Wdrawing}) \/ activity_format \in {"freeform"}
               THEN One ELSE 300
        ELSE IF child.learning_style = "auditory"
          THEN IF activity_type \in {Wstorytelling, Wreading} \/ activity_format \in {"freeform"}
               THEN One ELSE 300
        ELSE IF child.learning_style = "logical"
          THEN IF activity_type \in {Wmath, Wlogic} \/ AnyTag({Wpuzzles, Wreasoning})
               THEN One ELSE 300
        ELSE IF child.learning_style = "kinesthetic"
          THEN IF AnyTag({Wquick, Wapplied, Wfluency})
                    \/ activity.estimated_min <= child.attention_span_min
               THEN One ELSE 300
        ELSE 300

\* Bands that leave out their ends: 0.6 < mean_skill < 0.8.
level_fit_open_bands(activity, child) ==
    LET mean_skill == mean(SkillScores(activity, child), 300)
        aligned_band ==
            IF activity.level = "easy" THEN mean_skill < 360
            ELSE IF activity.level = "medium" THEN 360 < mean_skill /\ mean_skill < 480
            ELSE mean_skill > 480
        adjacent_band ==
            IF activity.level = "easy" THEN 360 < mean_skill /\ mean_skill < 480
            ELSE IF activity.level = "medium" THEN mean_skill <= 360 \/ mean_skill >= 480
            ELSE 360 < mean_skill /\ mean_skill < 480
    IN  IF aligned_band THEN One ELSE IF adjacent_band THEN 420 ELSE 240

\* the bands 0.6 and 0.8 are 360 and 480 as fit values
level_fit(activity, child) ==
    LET mean_skill == mean(SkillScores(activity, child), 300)
        aligned_band ==
            IF activity.level = "easy" THEN mean_skill < 360
            ELSE IF activity.level = "medium" THEN 360 <= mean_skill /\ mean_skill <= 480
            ELSE mean_skill > 480
        adjacent_band ==
            IF activity.level = "easy" THEN 360 <= mean_skill /\ mean_skill <= 480
            ELSE IF activity.level = "medium" THEN mean_skill < 360 \/ mean_skill > 480
            ELSE 360 <= mean_skill /\ mean_skill <= 480
    IN  IF aligned_band THEN One ELSE IF adjacent_band THEN 420 ELSE 240

\* 0.5 + 0.5 * (attention_span_min / estimated_min), clamped to [0.5, 1.0];
\* the pool's estimated_min values divide 300, so the quotient is exact
time_fit(activity, child) ==
    IF activity.estimated_min <= child.attention_span_min THEN One
    ELSE LET score == 300 + (300 * child.attention_span_min) \div activity.estimated_min
         IN  Max2(300, Min2(One, score))

\* A Python value of the list handed to recency_penalty: a str or a
\* SessionLog.  Two values of different classes are never equal (neither
\* str.__eq__ nor BaseModel.__eq__ accepts the other class).
StrItem(x) == [class |-> "str", val |-> x]
LogItem(x) == [class |-> "SessionLog", val |-> x]
PyEq(a, b) == a.class = b.class /\ a.val = b.val

\* recency_penalty(activity_id, history, recent_k=2); history is a list of
\* Python values
recency_penalty(activity_id, history) ==
    IF history = <<>> THEN 0
    ELSE LET recent_activities == SliceTo(history, 2)
         IN  IF \E i \in 1..Len(recent_activities) :
                    PyEq(StrItem(activity_id), recent_activities[i])
             THEN One ELSE 0

\* total_score(activity, child, history); history is the list of Python
\* values the caller hands over
total_score(activity, child, history) ==
    WEIGHTS.skill_fit * skill_fit(activity, child)
    + WEIGHTS.interest_fit * interest_fit(activity, child)
    + WEIGHTS.style_fit * style_fit(activity, child)
    + WEIGHTS.level_fit * level_fit(activity, child)
    + WEIGHTS.time_fit * time_fit(activity, child)
    - WEIGHTS.recency_penalty * recency_penalty(activity.id, history)

----------------------------------------------------------------------------
(* session.py: recent_activity_ids on a history given by value (a list of  *)
(* session logs [child_id, attempts])                                      *)

\* all_attempts: the attempts of all sessions, in list order
RECURSIVE Flatten(_)
Flatten(history) ==
    IF history = <<>> THEN <<>>
    ELSE Head(history).attempts \o Flatten(Tail(history))

recent_activity_ids(history, k) ==
    IF k <= 0 THEN <<>>
    ELSE LET all_attempts == Flatten(history)
             keyed == [i \in 1..Len(all_attempts) |->
                          [val |-> all_attempts[i], key |-> all_attempts[i].timestamp]]
             sorted_attempts == SortDesc(keyed)
             firstk == SliceTo(sorted_attempts, k)
         IN  [i \in 1..Len(firstk) |-> firstk[i].val.activity_id]

----------------------------------------------------------------------------
(* recommender.py *)

\* the history as total_score receives it from the recommender: the list
\* of session logs itself
LogItems(history) == [i \in 1..Len(history) |-> LogItem(history[i])]

\* A scoring step without the sort: scored_activities in catalog order.
ScoredActivitiesUnsorted(child, activities, history) ==
    [i \in 1..Len(activities) |->
        [val |-> activities[i],
         key |-> total_score(activities[i], child, LogItems(history))]]

\* Step 2 and 3: scored_activities after the sort
ScoredActivities(child, activities, history) ==
    SortDesc([i \in 1..Len(activities) |->
                 [val |-> activities[i],
                  key |-> total_score(activities[i], child, LogItems(history))]])

TypesOf(selected) == {selected[i].val.type : i \in 1..Len(selected)}

\* min(selected, key=lambda x: x[1]): the position of the first element of
\* the lowest score
LowestIndex(selected) ==
    CHOOSE i \in 1..Len(selected) :
        /\ \A j \in 1..Len(selected) : selected[i].key <= selected[j].key
        /\ \A j \in 1..(i - 1) : selected[j].key > selected[i].key

RemoveAt(s, i) == SubSeq(s, 1, i - 1) \o SubSeq(s, i + 1, Len(s))

\* the condition of line 71
DiversityWanted(scored, k) ==
    Cardinality(TypesOf(SliceTo(scored, k))) < 2 /\ Len(scored) > k

\* the positions of the remaining candidates whose type is not selected
OtherTyped(scored, k) ==
    LET rest == SliceFrom(scored, k)
    IN  {i \in 1..Len(rest) : rest[i].val.type \notin TypesOf(SliceTo(scored, k))}

\* the diversity pass replaces an element of the selection
Substituted(scored, k) ==
    /\ DiversityWanted(scored, k)
    /\ SliceTo(scored, k) # <<>>
    /\ OtherTyped(scored, k) # {}

\* A diversity pass that adds the other-typed activity and removes none.
DiversityPassKeepingLowest(scored, k) ==
    LET selected == SliceTo(scored, k)
        rest == SliceFrom(scored, k)
    IN  IF Substituted(scored, k)
        THEN LET first == CHOOSE i \in OtherTyped(scored, k) :
                              \A j \in OtherTyped(scored, k) : i <= j
             IN  selected \o <<rest[first]>>
        ELSE selected

\* Step 4: selected after the diversity pass
DiversityPass(scored, k) ==
    LET selected == SliceTo(scored, k)
        rest == SliceFrom(scored, k)
    IN  IF Substituted(scored, k)
        THEN LET first == CHOOSE i \in OtherTyped(scored, k) :
                              \A j \in OtherTyped(scored, k) : i <= j
             IN  RemoveAt(selected, LowestIndex(selected)) \o <<rest[first]>>
        ELSE selected

\* min() of an empty selection raises ValueError
MinRaises(scored, k) == DiversityWanted(scored, k) /\ SliceTo(scored, k) = <<>>

\* the temporary history of the fallback for one activity: its attempts
\* are dropped, and so are the sessions left without attempts
RECURSIVE TempHistory(_, _)
TempHistory(history, activity_id) ==
    IF history = <<>> THEN <<>>
    ELSE LET session == Head(history)
             temp_session ==
                 [child_id |-> session.child_id,
                  attempts |-> SelectSeq(session.attempts,
                                         LAMBDA at : at.activity_id # activity_id)]
         IN  (IF temp_session.attempts # <<>> THEN <<temp_session>> ELSE <<>>)
             \o TempHistory(Tail(history), activity_id)

\* A fallback without the sort: relaxed_scores in catalog order.
RelaxedScoresUnsorted(child, activities, history) ==
    [i \in 1..Len(activities) |->
        [val |-> activities[i],
         key |-> total_score(activities[i], child,
                    LogItems(TempHistory(history, activities[i].id)))]]

\* Step 5: relaxed_scores after the sort
RelaxedScores(child, activities, history) ==
    SortDesc([i \in 1..Len(activities) |->
                 [val |-> activities[i],
                  key |-> total_score(activities[i], child,
                             LogItems(TempHistory(history, activities[i].id)))]])

Activities(selected) == [i \in 1..Len(selected) |-> selected[i].val]

\* A recommender whose fallback runs only for an empty selection.
recommend_activities_one_suffices(child, activities, history, k) ==
    IF activities = <<>>
    THEN [raised |-> FALSE, value |-> <<>>, substituted |-> FALSE, fallback |-> FALSE]
    ELSE LET scored == ScoredActivities(child, activities, history)
         IN  IF MinRaises(scored, k)
             THEN [raised |-> TRUE, value |-> <<>>, substituted |-> FALSE,
                   fallback |-> FALSE]
             ELSE LET diverse == DiversityPass(scored, k)
                      fallback == Len(diverse) < 1
                      selected ==
                          IF fallback
                          THEN SliceTo(RelaxedScores(child, activities, history), k)
                          ELSE diverse
                  IN  [raised |-> FALSE,
                       value |-> Activities(SliceTo(selected, Min2(k, 3))),
                       substituted |-> Substituted(scored, k),
                       fallback |-> fallback]

\* recommend_activities(child, activities, history, k): raised tells that
\* the call ended in an exception, value is the list returned otherwise;
\* substituted and fallback tell which steps ran
recommend_activities(child, activities, history, k) ==
    IF activities = <<>>
    THEN [raised |-> FALSE, value |-> <<>>, substituted |-> FALSE, fallback |-> FALSE]
    ELSE LET scored == ScoredActivities(child, activities, history)
         IN  IF MinRaises(scored, k)
             THEN [raised |-> TRUE, value |-> <<>>, substituted |-> FALSE,
                   fallback |-> FALSE]
             ELSE LET diverse == DiversityPass(scored, k)
                      fallback == Len(diverse) < 2
                      selected ==
                          IF fallback
                          THEN SliceTo(RelaxedScores(child, activities, history), k)
                          ELSE diverse
                  IN  [raised |-> FALSE,
                       value |-> Activities(SliceTo(selected, Min2(k, 3))),
                       substituted |-> Substituted(scored, k),
                       fallback |-> fallback]

\* explain_recommendation(child, activity, history)["total_score"]
explain_recommendation(child, activity, history) ==
    LET recent_ids == recent_activity_ids(history, 2)
        recent_items == [i \in 1..Len(recent_ids) |-> StrItem(recent_ids[i])]
    IN  WEIGHTS.skill_fit * skill_fit(activity, child)
        + WEIGHTS.interest_fit * interest_fit(activity, child)
        + WEIGHTS.style_fit * style_fit(activity, child)
        + WEIGHTS.level_fit * level_fit(activity, child)
        + WEIGHTS.time_fit * time_fit(activity, child)
        - WEIGHTS.recency_penalty * recency_penalty(activity.id, recent_items)

----------------------------------------------------------------------------
(* evaluate.py: scores are in hundredths *)

NumItem(x) == [class |-> "number", val |-> x]

\* rubric.get(key, default): a rubric is a function on the keys it holds
RubricGet(rubric, key, default) ==
    IF key \in DOMAIN rubric THEN rubric[key] ELSE default

Abs(x) == IF x >= 0 THEN x ELSE 0 - x

\* A comparison that normalizes the answer only.
MatchesUnnormalized(answer, acceptable, numeric_tolerance) ==
    IF acceptable.class = "number" /\ answer.class = "number"
    THEN Abs(answer.val - acceptable.val) <= numeric_tolerance
    ELSE IF acceptable.class = "str" /\ answer.class = "str"
    THEN normalize_text(answer.val) = acceptable.val
    ELSE FALSE

\* one pass of the loop of eval_qna: does this acceptable answer match
Matches(answer, acceptable, numeric_tolerance) ==
    IF acceptable.class = "number" /\ answer.class = "number"
    THEN Abs(answer.val - acceptable.val) <= numeric_tolerance
    ELSE IF acceptable.class = "str" /\ answer.class = "str"
    THEN normalize_text(answer.val) = normalize_text(acceptable.val)
    ELSE FALSE

\* eval_qna(answer, activity); answer is a Python value
eval_qna(answer, activity) ==
    LET acceptable_answers == RubricGet(activity.rubric, "answers", <<>>)
        numeric_tolerance == RubricGet(activity.rubric, "numeric_tolerance", 0)
        correct == \E i \in 1..Len(acceptable_answers) :
                       Matches(answer, acceptable_answers[i], numeric_tolerance)
    IN  IF acceptable_answers = <<>>
        THEN [kind |-> "qna", correct |-> FALSE, score |-> 0]
        ELSE [kind |-> "qna", correct |-> correct,
              score |-> IF correct THEN 100 ELSE 0]

\* text.split("."): the segments between the periods
RECURSIVE SplitFrom(_, _)
SplitFrom(text, current) ==
    IF text = <<>> THEN <<current>>
    ELSE IF Head(text) = "." THEN <<current>> \o SplitFrom(Tail(text), <<>>)
    ELSE SplitFrom(Tail(text), Append(current, Head(text)))

Split(text) == SplitFrom(text, <<>>)

\* A sentence count that keeps the blank segments.
SentencesUnfiltered(text) == Split(text)

\* [s.strip() for s in text.split(".") if s.strip()]
Sentences(text) ==
    LET kept == SelectSeq(Split(text), LAMBDA seg : Strip(seg) # <<>>)
    IN  [i \in 1..Len(kept) |-> Strip(kept[i])]

\* the loop over the keywords: one hit per keyword found in the text
KeywordHits(text, keywords) ==
    Cardinality({i \in 1..Len(keywords) :
                    Contains(normalize_text(text), normalize_text(keywords[i]))})

\* A grader that gives 0.2 for every keyword found.
eval_freeform_double_bonus(text, activity) ==
    LET min_sentences == RubricGet(activity.rubric, "min_sentences", 3)
        meets_min_length == Len(Sentences(text)) >= min_sentences
        keywords == RubricGet(activity.rubric, "keywords", <<>>)
        keyword_hits == IF keywords # <<>> THEN KeywordHits(text, keywords) ELSE 0
        base_score == IF meets_min_length THEN 60 ELSE 30
    IN  [kind |-> "freeform", meets_min_length |-> meets_min_length,
         keyword_hits |-> keyword_hits,
         score |-> Min2(base_score + Min2(keyword_hits * 20, 40), 100)]

\* eval_freeform(text, activity)
eval_freeform(text, activity) ==
    LET min_sentences == RubricGet(activity.rubric, "min_sentences", 3)
        sentences == Sentences(text)
        meets_min_length == Len(sentences) >= min_sentences
        keywords == RubricGet(activity.rubric, "keywords", <<>>)
        keyword_hits == IF keywords # <<>> THEN KeywordHits(text, keywords) ELSE 0
        base_score == IF meets_min_length THEN 60 ELSE 30
        keyword_bonus == Min2(keyword_hits * 10, 40)
    IN  [kind |-> "freeform", meets_min_length |-> meets_min_length,
         keyword_hits |-> keyword_hits,
         score |-> Min2(base_score + keyword_bonus, 100)]

\* A classifier with one table for every kind.
choose_outcome_one_table(result) ==
    LET score == RubricGet(result, "score", 0)
    IN  IF score >= 80 THEN "success"
        ELSE IF score >= 50 THEN "partial"
        ELSE "struggle"

\* choose_outcome_from_eval(result): result.get("kind"),
\* result.get("score", 0.0)
choose_outcome_from_eval(result) ==
    LET kind == RubricGet(result, "kind", "None")
        score == RubricGet(result, "score", 0)
    IN  IF kind = "qna"
        THEN IF score >= 100 THEN "success" ELSE "struggle"
        ELSE IF score >= 80 THEN "success"
        ELSE IF score >= 50 THEN "partial"
        ELSE "struggle"

\* An evaluation step that hands the numeral 42 to eval_qna as a number.
EvaluateConverting(user_answer, activity) ==
    IF activity.format = "qna"
    THEN eval_qna(IF user_answer = <<"4", "2">> THEN NumItem(42)
                  ELSE StrItem(user_answer),
                  activity)
    ELSE eval_freeform(user_answer, activity)

\* the evaluation step of the orchestrator: the grader is chosen by the
\* activity's format; the answer is the text typed or simulated
Evaluate(user_answer, activity) ==
    IF activity.format = "qna"
    THEN eval_qna(StrItem(user_answer), activity)
    ELSE eval_freeform(user_answer, activity)

----------------------------------------------------------------------------
(* buddy.py: skill adaptation *)

\* A clamp that forgets the upper limit.
clampBelowOnly(value, min_val, max_val) == Max2(min_val, value)

clamp(value, min_val, max_val) == Max2(min_val, Min2(value, max_val))

\* A table that leaves the skills of a struggling learner as they are.
DeltaNeverNegative(outcome) ==
    CASE outcome = "success" -> 3
      [] outcome = "partial" -> 1
      [] OTHER -> 0

\* delta_map.get(outcome, 0.0), in hundredths
Delta(outcome) ==
    CASE outcome = "success" -> 3
      [] outcome = "partial" -> 1
      [] outcome = "struggle" -> 0 - 1
      [] OTHER -> 0

\* An update that rebuilds the map from the one skill it sets.
SkillsPutOnly(baseline_skills, skill, value) == [sk \in {skill} |-> value]

\* baseline_skills[skill] = value
SkillsPut(baseline_skills, skill, value) ==
    [sk \in (DOMAIN baseline_skills) \cup {skill} |->
        IF sk = skill THEN value ELSE baseline_skills[sk]]

\* one pass of the adaptation loop: the new value of one skill
NewSkill(baseline_skills, skill, delta) ==
    clamp((IF skill \in DOMAIN baseline_skills THEN baseline_skills[skill] ELSE 50)
              + delta, 0, 100)

\* the loop  for skill in activity.skills  over baseline_skills
RECURSIVE AdaptSkills(_, _, _)
AdaptSkills(baseline_skills, skills, delta) ==
    IF skills = <<>> THEN baseline_skills
    ELSE AdaptSkills(SkillsPut(baseline_skills, Head(skills),
                               NewSkill(baseline_skills, Head(skills), delta)),
                     Tail(skills), delta)

----------------------------------------------------------------------------
(* The activities, learners and attempts the model draws its inputs from *)

Outcomes == {"success", "partial", "struggle", "skipped"}

ChildIds == {"C1", "C2"}

\* answers as typed or simulated, rubric entries and keywords
T42 == <<"4", "2">>
TPadded42 == <<" ", "4", "2", " ">>
TWrong == <<"w", "r", "o", "n", "g">>
Tcat == <<"c", "a", "t">>
Tdog == <<"d", "o", "g">>
TCatPadded == <<" ", "C", "a", "t", " ">>
Ta == <<"a">>
Tc == <<"c">>
Tat == <<"a", "t">>
\* "Cat. Dog. a." (three sentences, both keywords), "a. b" (two sentences),
\* "cat" (one sentence, one keyword)
TStory == <<"C", "a", "t", ".", " ", "D", "o", "g", ".", " ", "a", ".">>
TTwo == <<"a", ".", " ", "b">>
TOne == <<"c", "a", "t">>
\* " . .a": two blank segments and one sentence
TBlank == <<" ", ".", " ", ".", "a">>

\* the pool of catalog entries, in catalog order; ids are unique; a skills
\* list is any non-empty list of names (A3 names one skill twice)
Pool ==
    << [id |-> "A1", type |-> Wmath, level |-> "easy", skills |-> <<"math">>,
        tags |-> <<Wquick>>, estimated_min |-> 10, format |-> "qna",
        rubric |-> [answers |-> <<StrItem(T42)>>]],
       [id |-> "A2", type |-> Wmath, level |-> "medium", skills |-> <<"math">>,
        tags |-> <<>>, estimated_min |-> 15, format |-> "qna",
        rubric |-> [answers |-> <<NumItem(42)>>, numeric_tolerance |-> 1]],
       [id |-> "A3", type |-> Wreading, level |-> "medium",
        skills |-> <<"reading", "reading">>,
        tags |-> <<Wvisual>>, estimated_min |-> 20, format |-> "freeform",
        rubric |-> [min_sentences |-> 2, keywords |-> <<Tcat, Tdog>>]],
       [id |-> "A4", type |-> Wmath, level |-> "hard", skills |-> <<"math", "logic">>,
        tags |-> <<Wpuzzles>>, estimated_min |-> 10, format |-> "qna",
        rubric |-> [answers |-> <<NumItem(7), StrItem(T42)>>]],
       [id |-> "A5", type |-> Wmath, level |-> "easy", skills |-> <<"math">>,
        tags |-> <<>>, estimated_min |-> 10, format |-> "qna",
        rubric |-> [answers |-> <<>>]],
       [id |-> "A6", type |-> Wlogic, level |-> "medium", skills |-> <<"logic">>,
        tags |-> <<Wreasoning>>, estimated_min |-> 30, format |-> "freeform",
        rubric |-> [keywords |-> <<>>]],
       [id |-> "A7", type |-> Wmath, level |-> "easy", skills |-> <<"math">>,
        tags |-> <<>>, estimated_min |-> 15, format |-> "qna",
        rubric |-> [answers |-> <<StrItem(TCatPadded)>>]],
       [id |-> "A8", type |-> Wreading, level |-> "easy", skills |-> <<"reading">>,
        tags |-> <<>>, estimated_min |-> 5, format |-> "freeform",
        rubric |-> [min_sentences |-> 1, keywords |-> <<Tcat, Tdog, Ta, Tc, Tat>>]],
       [id |-> "A9", type |-> Wreading, level |-> "hard", skills |-> <<"reading">>,
        tags |-> <<>>, estimated_min |-> 5, format |-> "freeform",
        rubric |-> [min_sentences |-> 3,
                    keywords |-> <<TCatPadded, Tdog, Ta, Tc, Tat>>]] >>

\* the entries of Pool at the positions in S, in pool order
RECURSIVE Pick(_, _)
Pick(S, from) ==
    IF from > Len(Pool) THEN <<>>
    ELSE (IF from \in S THEN <<Pool[from]>> ELSE <<>>) \o Pick(S, from + 1)

\* every catalog: a selection of the first PoolSize pool entries
Catalogs == {Pick(S, 1) : S \in SUBSET (1..Min2(PoolSize, Len(Pool)))}

\* learner profiles; interests are free text
Learner1 ==
    [id |-> "C1", interests |-> <<<<"M", "a", "t", "h", " ">>>>,
     learning_style |-> "logical", attention_span_min |-> 15,
     baseline_skills |-> [sk \in {"math", "reading"} |->
                             IF sk = "math" THEN 80 ELSE 70]]

Learner2 ==
    [id |-> "C2", interests |-> <<<<"p", "u", "z", "z", "l", "e">>, Wreading>>,
     learning_style |-> "visual", attention_span_min |-> 10,
     baseline_skills |-> [sk \in {"math", "reading"} |->
                             IF sk = "math" THEN 99 ELSE 0]]

\* the answers a learner types or the simulator produces
Answers == {T42, TPadded42, TWrong, TStory, TTwo, TOne}

\* the answers handed to eval_qna: text, and numbers
QnaAnswers ==
    {StrItem(t) : t \in {T42, TPadded42, TWrong, TOne}}
    \cup {NumItem(n) : n \in {7, 41, 42, 43, 44}}

\* the texts handed to eval_freeform
FreeTexts == Answers \cup {<<>>, TBlank}

\* the results handed to choose_outcome_from_eval: any kind, any score in
\* hundredths, and results without a kind or without a score
EvalResults ==
    {[kind |-> k, score |-> sc] : k \in {"qna", "freeform", "unknown"}, sc \in 0..110}
    \cup {[score |-> sc] : sc \in {0, 50, 80, 100}}
    \cup {[kind |-> k] : k \in {"qna", "freeform"}}

\* the attempts handed to append_attempt directly: any activity id of
\* AttemptIds, any timestamp up to MaxTime, the default details {}
AttemptIds == {"A1", "A3"}

OutcomeOf(activity_id) == IF activity_id = "A1" THEN "success" ELSE "struggle"

DirectAttempts ==
    {[activity_id |-> a, timestamp |-> t, outcome |-> OutcomeOf(a), details |-> <<>>] :
        a \in AttemptIds, t \in 1..MaxTime}

\* the histories a run starts from, as load_history can return them: the
\* empty history, a log without attempts, two logs of one learner (as
\* seed_history.py produces them by appending new sessions), two learners
InitialHistories ==
    { <<>>,
      << [child_id |-> "C1", attempts |-> <<>>] >>,
      << [child_id |-> "C1",
          attempts |-> <<[activity_id |-> "A3", timestamp |-> 1, outcome |-> "partial",
                          details |-> <<>>]>>],
         [child_id |-> "C1", attempts |-> <<>>] >>,
      << [child_id |-> "C2",
          attempts |-> <<[activity_id |-> "A1", timestamp |-> 2, outcome |-> "success",
                          details |-> <<>>]>>],
         [child_id |-> "C1",
          attempts |-> <<[activity_id |-> "A3", timestamp |-> 1, outcome |-> "skipped",
                          details |-> <<>>]>>] >> }

----------------------------------------------------------------------------
(* persist.py: what json.dump(..., default=str) writes and what json.load  *)
(* followed by SessionLog.model_validate reads                             *)

\* Python values an attempt's details can hold (Dict[str, Any]), besides
\* text (StrItem) and numbers (NumItem)
BoolItem(x) == [class |-> "bool", val |-> x]
DictItem(x) == [class |-> "dict", val |-> x]
ListItem(x) == [class |-> "list", val |-> x]
TupleItem(x) == [class |-> "tuple", val |-> x]
DatetimeItem(x) == [class |-> "datetime", val |-> x]

\* JSON values
JStr(x) == [j |-> "string", val |-> x]
JNum(x) == [j |-> "number", val |-> x]
JBool(x) == [j |-> "bool", val |-> x]
JArr(x) == [j |-> "array", val |-> x]
JObj(x) == [j |-> "object", val |-> x]

DigitChars == <<"0", "1", "2", "3", "4", "5", "6", "7", "8", "9">>

\* A text of the timestamp that keeps its last digit only.
FormatTimeUnits(t) == <<DigitChars[(t % 10) + 1]>>

\* str(timestamp), the text default=str writes for a datetime: a
\* timestamp is a whole number of ticks, its text the decimal digits
RECURSIVE FormatTime(_)
FormatTime(t) ==
    IF t < 10 THEN <<DigitChars[t + 1]>>
    ELSE FormatTime(t \div 10) \o <<DigitChars[(t % 10) + 1]>>

DigitOf(c) ==
    IF \E d \in 1..10 : DigitChars[d] = c
    THEN (CHOOSE d \in 1..10 : DigitChars[d] = c) - 1
    ELSE 0 - 1

\* the datetime pydantic parses from a text; -1 if it is no timestamp
RECURSIVE ParseTimeFrom(_, _)
ParseTimeFrom(text, acc) ==
    IF text = <<>> THEN acc
    ELSE IF DigitOf(Head(text)) < 0 THEN 0 - 1
    ELSE ParseTimeFrom(Tail(text), 10 * acc + DigitOf(Head(text)))

ParseTime(text) == IF text = <<>> THEN 0 - 1 ELSE ParseTimeFrom(text, 0)

\* json.dump of a Python value: a tuple is written as an array, a value
\* JSON has no form for (a datetime) as the text str() gives
RECURSIVE Dump(_)
Dump(v) ==
    CASE v.class = "str" -> JStr(v.val)
      [] v.class = "number" -> JNum(v.val)
      [] v.class = "bool" -> JBool(v.val)
      [] v.class = "dict" -> JObj([k \in DOMAIN v.val |-> Dump(v.val[k])])
      [] v.class \in {"list", "tuple"} ->
            JArr([i \in 1..Len(v.val) |-> Dump(v.val[i])])
      [] v.class = "datetime" -> JStr(FormatTime(v.val))

\* session.model_dump() written by json.dump
DumpAttempt(a) ==
    JObj([activity_id |-> JStr(a.activity_id),
          timestamp |-> JStr(FormatTime(a.timestamp)),
          outcome |-> JStr(a.outcome),
          details |-> Dump(DictItem(a.details))])

DumpSession(session_log) ==
    JObj([child_id |-> JStr(session_log.child_id),
          attempts |-> JArr([i \in 1..Len(session_log.attempts) |->
                                DumpAttempt(session_log.attempts[i])])])

\* history_data as json.dump writes it
DumpHistory(h) == JArr([i \in 1..Len(h) |-> DumpSession(h[i])])

\* json.load of a JSON value
RECURSIVE Load(_)
Load(x) ==
    CASE x.j = "string" -> StrItem(x.val)
      [] x.j = "number" -> NumItem(x.val)
      [] x.j = "bool" -> BoolItem(x.val)
      [] x.j = "object" -> DictItem([k \in DOMAIN x.val |-> Load(x.val[k])])
      [] x.j = "array" -> ListItem([i \in 1..Len(x.val) |-> Load(x.val[i])])

\* does ActivityAttempt validate the JSON value: an object with no key
\* besides the four fields, the three required ones present, a timestamp
\* that is a number or the text of one, an outcome of the four, details an
\* object
ValidTimestamp(x) ==
    \/ x.j = "number"
    \/ x.j = "string" /\ ParseTime(x.val) >= 0

ValidAttempt(x) ==
    /\ x.j = "object"
    /\ DOMAIN x.val \subseteq {"activity_id", "timestamp", "outcome", "details"}
    /\ {"activity_id", "timestamp", "outcome"} \subseteq DOMAIN x.val
    /\ x.val.activity_id.j = "string"
    /\ ValidTimestamp(x.val.timestamp)
    /\ x.val.outcome.j = "string"
    /\ x.val.outcome.val \in Outcomes
    /\ "details" \in DOMAIN x.val => x.val.details.j = "object"

\* the ActivityAttempt validated from the JSON value
LoadAttempt(x) ==
    [activity_id |-> x.val.activity_id.val,
     timestamp |-> IF x.val.timestamp.j = "number" THEN x.val.timestamp.val
                   ELSE ParseTime(x.val.timestamp.val),
     outcome |-> x.val.outcome.val,
     details |-> IF "details" \in DOMAIN x.val THEN Load(x.val.details).val ELSE <<>>]

\* does SessionLog validate the JSON value
ValidSession(x) ==
    /\ x.j = "object"
    /\ DOMAIN x.val \subseteq {"child_id", "attempts"}
    /\ "child_id" \in DOMAIN x.val
    /\ x.val.child_id.j = "string"
    /\ "attempts" \in DOMAIN x.val =>
          /\ x.val.attempts.j = "array"
          /\ \A i \in 1..Len(x.val.attempts.val) : ValidAttempt(x.val.attempts.val[i])

LoadSession(x) ==
    [child_id |-> x.val.child_id.val,
     attempts |-> IF "attempts" \in DOMAIN x.val
                  THEN [i \in 1..Len(x.val.attempts.val) |->
                           LoadAttempt(x.val.attempts.val[i])]
                  ELSE <<>>]

\* no save is running
NoSave == [fn |-> "none"]

\* a file: absent, text that is no JSON, or the text of a JSON value
Absent == [state |-> "absent"]
Garbage == [state |-> "garbage"]
JsonFile(x) == [state |-> "json", val |-> x]

Returns(value) == [raised |-> FALSE, value |-> value]
Raises(error) == [raised |-> TRUE, error |-> error]

\* A loader that drops the records that do not validate and returns the
\* rest.
load_history_dropping(file) ==
    IF file.state = "absent" THEN Returns(<<>>)
    ELSE IF file.state = "garbage" THEN Raises("ValueError")
    ELSE IF file.val.j = "array"
    THEN Returns([i \in 1..Len(SelectSeq(file.val.val, ValidSession)) |->
                     LoadSession(SelectSeq(file.val.val, ValidSession)[i])])
    ELSE Returns(<<>>)

\* load_history(path) on the file: [] if there is none, ValueError for
\* text that is no JSON and for any exception of the loop over the value
\* read (a record that does not validate; a value that cannot be iterated)
load_history(file) ==
    IF file.state = "absent" THEN Returns(<<>>)
    ELSE IF file.state = "garbage" THEN Raises("ValueError")
    ELSE IF file.val.j = "array"
    THEN IF \A i \in 1..Len(file.val.val) : ValidSession(file.val.val[i])
         THEN Returns([i \in 1..Len(file.val.val) |-> LoadSession(file.val.val[i])])
         ELSE Raises("ValueError")
    ELSE IF file.val.j = "object"
    THEN IF DOMAIN file.val.val = {} THEN Returns(<<>>) ELSE Raises("ValueError")
    ELSE IF file.val.j = "string"
    THEN IF file.val.val = <<>> THEN Returns(<<>>) ELSE Raises("ValueError")
    ELSE Raises("ValueError")

----------------------------------------------------------------------------
(* State *)

VARIABLES
    catalog,    \* the activity catalog, a list of activities
    profiles,   \* the learner profiles, a list
    logs,       \* the heap of SessionLog objects; a reference is a position
    history,    \* the current history: a list of references into logs
    last,       \* the last call made: its name, arguments and result
    appended,   \* per learner id, the attempts handed to append_attempt so far
    history0,   \* the history the run started from, by value
    pc,         \* where run_session stands: "idle", a step of its loop, a save
    session,    \* the locals of run_session: child, recommended, position
    clock,      \* datetime.now()
    history_file,   \* the history file: absent, or the text it holds
    snapshots,  \* the snapshot files written so far, by learner id
    temps,      \* the temporary files lying in the data directories, a list
    save        \* the locals of the running save_history / save_child_snapshot

vars == <<catalog, profiles, logs, history, last, appended, history0,
          pc, session, clock, history_file, snapshots, temps, save>>

\* what only the orchestrator and the persistence functions touch
orchestrator == <<pc, session, clock, history_file, snapshots, temps, save>>

\* the history behind a list of references, by value
Deref(lg, h) == [i \in 1..Len(h) |-> lg[h[i]]]

History == Deref(logs, history)

TotalAttempts(h) == Len(Flatten(h))

----------------------------------------------------------------------------
(* session.py: append_attempt on the heap *)

\* the positions of the logs of child_id in the list h
Matching(lg, h, child_id) == {i \in 1..Len(h) : lg[h[i]].child_id = child_id}

\* A scan without the break: the last log of the list whose child_id matches.
LatestSessionNoBreak(lg, h, child_id) ==
    h[CHOOSE i \in Matching(lg, h, child_id) :
          \A j \in Matching(lg, h, child_id) : i >= j]

\* latest_session: the first log of the list whose child_id matches
LatestSession(lg, h, child_id) ==
    h[CHOOSE i \in Matching(lg, h, child_id) :
          \A j \in Matching(lg, h, child_id) : i <= j]

\* An append that assigns the attempt list instead of extending it.
AppendedLogsAssigning(lg, h, child_id, attempt) ==
    IF Matching(lg, h, child_id) # {}
    THEN [lg EXCEPT ![LatestSession(lg, h, child_id)].attempts = <<attempt>>]
    ELSE Append(lg, [child_id |-> child_id, attempts |-> <<attempt>>])

\* the heap after append_attempt(h, child_id, attempt)
AppendedLogs(lg, h, child_id, attempt) ==
    IF Matching(lg, h, child_id) # {}
    THEN [lg EXCEPT ![LatestSession(lg, h, child_id)].attempts = Append(@, attempt)]
    ELSE Append(lg, [child_id |-> child_id, attempts |-> <<attempt>>])

\* updated_history, the list append_attempt returns: a new list holding the
\* references of h, and a reference to the new log if one was created
AppendedHistory(lg, h, child_id) ==
    IF Matching(lg, h, child_id) # {} THEN h ELSE Append(h, Len(lg) + 1)

\* one call history = append_attempt(history, child_id, attempt); the
\* list handed over stays reachable as last.history_arg
AppendAttempt(child_id, attempt) ==
    /\ TotalAttempts(History) < MaxAttempts
    /\ logs' = AppendedLogs(logs, history, child_id, attempt)
    /\ history' = AppendedHistory(logs, history, child_id)
    /\ appended' = [appended EXCEPT ![child_id] = Append(@, attempt)]
    /\ last' = [op |-> "append_attempt", child_id |-> child_id, attempt |-> attempt,
                history_arg |-> history, before |-> History]
    /\ UNCHANGED <<catalog, profiles, history0, orchestrator>>

\* one call recent_activity_ids(history, k)
RecentActivityIds(k) ==
    /\ last' = [op |-> "recent_activity_ids", k |-> k,
                result |-> recent_activity_ids(History, k)]
    /\ UNCHANGED <<catalog, profiles, logs, history, appended, history0, orchestrator>>

----------------------------------------------------------------------------
(* The session/history model on its own: any calls of append_attempt and   *)
(* recent_activity_ids a caller can make                                   *)

NoCall == [op |-> "none"]

\* the locals of run_session before it has run
NoSession ==
    [child |-> Learner1, recommended |-> <<>>, position |-> 0, loaded |-> <<>>,
     user_answer |-> <<>>, eval_result |-> <<>>, outcome |-> "", attempt |-> <<>>]

\* no session is running
OrchestratorIdle ==
    /\ pc = "idle"
    /\ session = NoSession
    /\ clock = MaxTime + 1
    /\ history_file = Absent
    /\ snapshots = [c \in ChildIds |-> <<>>]
    /\ temps = <<>>
    /\ save = NoSave

InitHistory ==
    /\ catalog = Pick({1, 3}, 1)
    /\ profiles = <<Learner1, Learner2>>
    /\ \E h \in InitialHistories :
          /\ logs = h
          /\ history = [i \in 1..Len(h) |-> i]
          /\ history0 = h
    /\ last = NoCall
    /\ appended = [c \in ChildIds |-> <<>>]
    /\ OrchestratorIdle

NextHistory ==
    \/ \E c \in ChildIds, at \in DirectAttempts : AppendAttempt(c, at)
    \/ \E k \in (0 - MinusK)..MaxK : RecentActivityIds(k)

SpecHistory == InitHistory /\ [][NextHistory]_vars

----------------------------------------------------------------------------
(* Claims about the session/history model, checked under SpecHistory *)

\* C3: append_attempt does not mutate its history argument or any session
\* log in it: after the call the list handed over holds the same logs, each
\* with the same attempts as before the call.
C3_ArgumentUnchanged ==
    last.op = "append_attempt" => Deref(logs, last.history_arg) = last.before

\* The part of C3 the code keeps: the list itself is not mutated (it holds
\* the same number of logs, of the same learners, as before the call).
C3_ListUnchanged ==
    last.op = "append_attempt" =>
        /\ Len(last.history_arg) = Len(last.before)
        /\ \A i \in 1..Len(last.before) :
              logs[last.history_arg[i]].child_id = last.before[i].child_id

\* the positions of the logs of learner c in the history h (by value)
LogsOf(h, c) == {i \in 1..Len(h) : h[i].child_id = c}

RECURSIVE SumLens(_, _)
SumLens(f, S) ==
    IF S = {} THEN 0
    ELSE LET c == CHOOSE x \in S : TRUE IN Len(f[c]) + SumLens(f, S \ {c})

\* C8: after any sequence of append_attempt calls starting from the empty
\* history, each applied to the history the previous one returned, the
\* history holds for each learner id used one log whose attempts are
\* exactly the attempts appended for that learner, in call order, and no
\* other log; the number of attempts is the number of calls.
C8_AppendsPreserved ==
    history0 = <<>> =>
        /\ \A c \in ChildIds :
              IF appended[c] = <<>>
              THEN LogsOf(History, c) = {}
              ELSE /\ Cardinality(LogsOf(History, c)) = 1
                   /\ \A i \in LogsOf(History, c) : History[i].attempts = appended[c]
        /\ \A i \in 1..Len(History) : History[i].child_id \in ChildIds
        /\ TotalAttempts(History) = SumLens(appended, ChildIds)

\* C8 is exercised: two learners were used, one of them twice.
C8_Witness ==
    /\ history0 = <<>>
    /\ \E c \in ChildIds : Len(appended[c]) >= 2
    /\ \A c \in ChildIds : appended[c] # <<>>

OneLogPerLearner(h) == \A i, j \in 1..Len(h) : h[i].child_id = h[j].child_id => i = j

\* C9: starting from a history with at most one session log per learner
\* id, every history reached by append_attempt calls has at most one log
\* per learner id; a call creates a new log only when no log with that
\* child_id exists, and otherwise the first matching log receives the
\* attempt and every other log stays as it was.
C9_OneLogPerLearner ==
    /\ OneLogPerLearner(history0) => OneLogPerLearner(History)
    /\ last.op = "append_attempt" =>
          LET before == last.before
              m == LogsOf(before, last.child_id)
          IN  IF m = {}
              THEN History = Append(before, [child_id |-> last.child_id,
                                             attempts |-> <<last.attempt>>])
              ELSE LET first == CHOOSE i \in m : \A j \in m : i <= j
                   IN  /\ Len(History) = Len(before)
                       /\ \A i \in 1..Len(before) :
                             History[i] =
                                 IF i = first
                                 THEN [before[i] EXCEPT !.attempts = Append(@, last.attempt)]
                                 ELSE before[i]

\* C9 is exercised: a call found a log of the learner and a later one
\* did not, from a start with one log per learner.
C9_Witness ==
    /\ OneLogPerLearner(history0)
    /\ last.op = "append_attempt"
    /\ LogsOf(last.before, last.child_id) # {}
    /\ Len(History) > Len(history0)

\* the attempt at position i of the flattened history comes before the one
\* at position j in the order of C10: newer first, equal timestamps in
\* flattening order
Precedes(all, i, j) ==
    \/ all[i].timestamp > all[j].timestamp
    \/ all[i].timestamp = all[j].timestamp /\ i < j

RankOf(all, j) == Cardinality({i \in 1..Len(all) : Precedes(all, i, j)}) + 1

\* C10: recent_activity_ids(history, k) returns the activity ids of the
\* min(k, N) attempts with the newest timestamps among all N attempts of
\* all session logs, newest first, attempts with equal timestamps in
\* flattening order; for k <= 0 or an empty history it returns the empty
\* list.
C10_RecentIds ==
    last.op = "recent_activity_ids" =>
        LET all == Flatten(History)
            n == IF last.k <= 0 THEN 0 ELSE Min2(last.k, Len(all))
        IN  /\ Len(last.result) = n
            /\ \A p \in 1..n :
                  \E j \in 1..Len(all) :
                      RankOf(all, j) = p /\ last.result[p] = all[j].activity_id

\* C10 is exercised: a query with 0 < k < N over two logs that hold
\* attempts of equal timestamp and different activities.
C10_Witness ==
    /\ last.op = "recent_activity_ids"
    /\ last.k > 0
    /\ last.k < TotalAttempts(History)
    /\ Len(History) >= 2
    /\ \E i, j \in 1..TotalAttempts(History) :
          /\ i < j
          /\ Flatten(History)[i].timestamp = Flatten(History)[j].timestamp
          /\ Flatten(History)[i].activity_id # Flatten(History)[j].activity_id
          /\ RankOf(Flatten(History), i) <= last.k

----------------------------------------------------------------------------
(* The recommender on its own: recommend_activities and                    *)
(* explain_recommendation called with any learner and any k on any catalog *)
(* of the pool, over the histories a learner's attempts build up           *)

\* one call recommend_activities(child, catalog, history, k); scored is the
\* list the call ranks by (scored_activities after the sort), diverse the
\* selection after the diversity pass (if min() did not raise), relaxed
\* the list the fallback ranks by (relaxed_scores after the sort)
RecommendActivities(child, k) ==
    /\ last' = [op |-> "recommend_activities", child |-> child, k |-> k,
                scored |-> ScoredActivities(child, catalog, History),
                diverse |-> DiversityPass(ScoredActivities(child, catalog, History), k),
                relaxed |-> RelaxedScores(child, catalog, History),
                result |-> recommend_activities(child, catalog, History, k)]
    /\ UNCHANGED <<catalog, profiles, logs, history, appended, history0, orchestrator>>

\* one call explain_recommendation(child, activity, history)
ExplainRecommendation(child, activity) ==
    /\ last' = [op |-> "explain_recommendation", child |-> child, activity |-> activity,
                total_score |-> explain_recommendation(child, activity, History)]
    /\ UNCHANGED <<catalog, profiles, logs, history, appended, history0, orchestrator>>

\* the attempt the orchestrator builds for an activity: its timestamp is
\* the time of the call, later than that of every attempt before it
AttemptNow(activity_id) ==
    [activity_id |-> activity_id, timestamp |-> TotalAttempts(History) + 1,
     outcome |-> OutcomeOf(activity_id), details |-> <<>>]

InitRecommend ==
    /\ catalog \in Catalogs
    /\ profiles = <<Learner1, Learner2>>
    /\ logs = <<>>
    /\ history = <<>>
    /\ history0 = <<>>
    /\ last = NoCall
    /\ appended = [c \in ChildIds |-> <<>>]
    /\ OrchestratorIdle

\* A query leaves the catalog, the profiles and the history as it found
\* them, so every query is taken from the states the appends reach: the
\* record of the query before it adds nothing to what the next one sees.
NoQueryPending == last.op \in {"none", "append_attempt"}

NextRecommend ==
    \/ \E a \in AttemptIds : AppendAttempt("C1", AttemptNow(a))
    \/ /\ NoQueryPending
       /\ \E i \in 1..Len(profiles), k \in (0 - MinusK)..MaxK :
             RecommendActivities(profiles[i], k)
    \/ /\ NoQueryPending
       /\ \E i \in 1..Len(profiles), j \in 1..Len(catalog) :
             ExplainRecommendation(profiles[i], catalog[j])

SpecRecommend == InitRecommend /\ [][NextRecommend]_vars

----------------------------------------------------------------------------
(* Claims about the recommender, checked under SpecRecommend *)

Returned == last.op = "recommend_activities" /\ ~last.result.raised

\* C2: for every learner, catalog, history and every integer k (above 3,
\* from 1 to 3, 0 and negative alike), a list returned by
\* recommend_activities has at most 3 activities.
C2_AtMostThree == Returned => Len(last.result.value) <= 3

\* The part of C2 the code keeps: at most 3 activities for every k >= 0.
C2_AtMostThreeForNaturalK ==
    Returned /\ last.k >= 0 => Len(last.result.value) <= 3

\* the 2 most recent attempts hold the activity id
Recent(activity_id) == InList(activity_id, recent_activity_ids(History, 2))

\* C4: the score recommend_activities ranks an activity by includes the
\* recency term of the history passed in: it is 0.05 lower than the score
\* of the same activity and learner with an empty history if the activity
\* is among the 2 most recent attempts, and equal to it otherwise.
C4_RecencyInRanking ==
    last.op = "recommend_activities" =>
        \A i \in 1..Len(last.scored) :
            last.scored[i].key =
                total_score(last.scored[i].val, last.child, <<>>)
                - (IF Recent(last.scored[i].val.id)
                   THEN WEIGHTS.recency_penalty * One ELSE 0)

\* C5: the total_score explain_recommendation reports equals the score
\* recommend_activities computes for that activity with the same history
\* in its scoring step, also when the activity is among the 2 most recent
\* attempts.
C5_ExplainEqualsRanking ==
    last.op = "explain_recommendation" =>
        last.total_score =
            total_score(last.activity, last.child, LogItems(History))

NumTypes(activities) == Cardinality({activities[i].type : i \in 1..Len(activities)})

\* C6: for every k >= 2 (k > 3 too): if the catalog has at least 2
\* distinct types and the diversity pass made its substitution, the list
\* returned has at least 2 activities and at least 2 distinct types.
C6_DiverseAfterSubstitution ==
    Returned /\ last.k >= 2 /\ NumTypes(catalog) >= 2 /\ last.result.substituted =>
        /\ Len(last.result.value) >= 2
        /\ NumTypes(last.result.value) >= 2

----------------------------------------------------------------------------
(* buddy.py: the session orchestrator.  run_session is taken in steps, one *)
(* per answer it waits for; run_session_once is one step.                  *)

\* the session-log objects load_history builds: the heap and the list
LoadedLogs(loaded) == loaded.value
LoadedHistory(loaded) == [i \in 1..Len(loaded.value) |-> i]

\* next((p for p in profiles if p.id == child_id), None): the position of
\* the first profile of that id, 0 for None
FindChild(child_id) ==
    IF \E i \in 1..Len(profiles) : profiles[i].id = child_id
    THEN CHOOSE i \in 1..Len(profiles) :
             /\ profiles[i].id = child_id
             /\ \A j \in 1..(i - 1) : profiles[j].id # child_id
    ELSE 0

\* A selection that falls back on the first profile when the id asked for
\* is not found.
SelectChildOrFirst(child_id) ==
    IF FindChild(child_id) # 0 THEN FindChild(child_id)
    ELSE IF profiles # <<>> THEN 1 ELSE 0

\* the child run_session selects: the one asked for, or the first profile
\* when no id is given ("" stands for None); 0 when there is none
SelectChild(child_id) ==
    IF child_id # "" THEN FindChild(child_id)
    ELSE IF profiles # <<>> THEN 1 ELSE 0

\* eval_result as the attempt's details hold it (the reason, a message
\* for the reader, is left out)
EvalDetails(eval_result) ==
    IF eval_result.kind = "qna"
    THEN [kind |-> StrItem("qna"), correct |-> BoolItem(eval_result.correct),
          score |-> NumItem(eval_result.score)]
    ELSE [kind |-> StrItem("freeform"),
          meets_min_length |-> BoolItem(eval_result.meets_min_length),
          keyword_hits |-> NumItem(eval_result.keyword_hits),
          score |-> NumItem(eval_result.score)]

\* the steps of one attempt between the answer and the skill update: what
\* they compute
AttemptOf(activity, user_answer) ==
    LET eval_result == Evaluate(user_answer, activity)
        outcome == choose_outcome_from_eval(eval_result)
    IN  [eval |-> eval_result,
         outcome |-> outcome,
         attempt |-> [activity_id |-> activity.id, timestamp |-> clock,
                      outcome |-> outcome,
                      details |-> [eval |-> DictItem(EvalDetails(eval_result)),
                                   activity |-> StrItem(activity.id)]]]

\* the skill adaptation of one attempt: the learner's skills after it
Adapted(child, activity, outcome) ==
    [child EXCEPT !.baseline_skills = AdaptSkills(@, activity.skills, Delta(outcome))]

\* the attempts that can still be made within the bound of the model
AttemptsLeft == MaxTime + MaxAttempts + 1 - clock

\* run_session up to the first answer: load, select the child, recommend
RunSessionStart(child_id) ==
    /\ pc = "idle"
    /\ save = NoSave
    /\ AttemptsLeft >= 3
    /\ \E loaded \in {load_history(history_file)} :
          IF loaded.raised
          THEN /\ last' = [op |-> "run_session", report |-> "exception",
                           child_id |-> child_id]
               /\ UNCHANGED <<logs, history, pc, session>>
          ELSE
          /\ logs' = LoadedLogs(loaded)
          /\ history' = LoadedHistory(loaded)
          /\ \E c \in {SelectChild(child_id)} :
             IF c = 0
             THEN /\ last' = [op |-> "run_session", report |-> "child not found",
                              child_id |-> child_id]
                  /\ UNCHANGED <<pc, session>>
             ELSE \E rec \in {recommend_activities(profiles[c], catalog,
                                                   loaded.value, 3)} :
                  IF rec.raised
                  THEN /\ last' = [op |-> "run_session", report |-> "exception",
                                   child_id |-> child_id]
                       /\ UNCHANGED <<pc, session>>
                  ELSE IF rec.value = <<>>
                  THEN /\ last' = [op |-> "run_session", report |-> "no activities",
                                   child_id |-> child_id]
                       /\ UNCHANGED <<pc, session>>
                  ELSE /\ last' = [op |-> "run_session", report |-> "recommended",
                                   child_id |-> child_id]
                       /\ pc' = "answer"
                       /\ session' = [NoSession EXCEPT
                                         !.child = profiles[c],
                                         !.recommended = rec.value,
                                         !.position = 1,
                                         !.loaded = loaded.value]
    /\ UNCHANGED <<catalog, profiles, appended, history0, clock, history_file,
                   snapshots, temps, save>>

\* A loop that adapts the skills before it appends the attempt.
LoopStepAdaptFirst(step) ==
    CASE step = "answer" -> "evaluate"
      [] step = "evaluate" -> "classify"
      [] step = "classify" -> "build"
      [] step = "build" -> "adapt"
      [] step = "adapt" -> "append"
      [] step = "append" -> "answer"

\* the statements of one pass of the loop of run_session, in the order of
\* the code: the step that follows each
LoopStep(step) ==
    CASE step = "answer" -> "evaluate"
      [] step = "evaluate" -> "classify"
      [] step = "classify" -> "build"
      [] step = "build" -> "append"
      [] step = "append" -> "adapt"
      [] step = "adapt" -> "answer"

\* the activity of the pass the loop is in
CurrentActivity == session.recommended[session.position]

\* user_answer = input(...) or simulate_answer(activity)
SessionAnswer ==
    /\ pc = "answer"
    /\ pc' = LoopStep(pc)
    /\ \E user_answer \in Answers : session' = [session EXCEPT !.user_answer = user_answer]
    /\ UNCHANGED <<catalog, profiles, logs, history, last, appended, history0, clock,
                   history_file, snapshots, temps, save>>

\* eval_result = eval_qna(...) or eval_freeform(...)
SessionEvaluate ==
    /\ pc = "evaluate"
    /\ pc' = LoopStep(pc)
    /\ session' = [session EXCEPT
                      !.eval_result = Evaluate(session.user_answer, CurrentActivity)]
    /\ UNCHANGED <<catalog, profiles, logs, history, last, appended, history0, clock,
                   history_file, snapshots, temps, save>>

\* outcome = choose_outcome_from_eval(eval_result)
SessionClassify ==
    /\ pc = "classify"
    /\ pc' = LoopStep(pc)
    /\ session' = [session EXCEPT !.outcome = choose_outcome_from_eval(session.eval_result)]
    /\ UNCHANGED <<catalog, profiles, logs, history, last, appended, history0, clock,
                   history_file, snapshots, temps, save>>

\* attempt = ActivityAttempt(activity_id, timestamp=datetime.now(), outcome,
\* details={"eval": eval_result, "activity": activity.id})
SessionBuild ==
    /\ pc = "build"
    /\ pc' = LoopStep(pc)
    /\ session' = [session EXCEPT
                      !.attempt =
                          [activity_id |-> CurrentActivity.id, timestamp |-> clock,
                           outcome |-> session.outcome,
                           details |->
                               [eval |-> DictItem(EvalDetails(session.eval_result)),
                                activity |-> StrItem(CurrentActivity.id)]]]
    /\ clock' = clock + 1
    /\ UNCHANGED <<catalog, profiles, logs, history, last, appended, history0,
                   history_file, snapshots, temps, save>>

\* history = append_attempt(history, child.id, attempt)
SessionAppend ==
    /\ pc = "append"
    /\ pc' = LoopStep(pc)
    /\ logs' = AppendedLogs(logs, history, session.child.id, session.attempt)
    /\ history' = AppendedHistory(logs, history, session.child.id)
    /\ appended' = [appended EXCEPT ![session.child.id] = Append(@, session.attempt)]
    /\ UNCHANGED <<catalog, profiles, last, history0, session, clock, history_file,
                   snapshots, temps, save>>

\* the adaptation of the skills of child, the end of the pass: the loop
\* goes on with the next activity, or ends
SessionAdapt ==
    /\ pc = "adapt"
    /\ pc' = IF session.position = Len(session.recommended) THEN "save"
             ELSE LoopStep(pc)
    /\ session' = [NoSession EXCEPT
                      !.child = Adapted(session.child, CurrentActivity, session.outcome),
                      !.recommended = session.recommended,
                      !.position = session.position + 1,
                      !.loaded = session.loaded]
    /\ last' = [op |-> "attempt", by |-> "run_session", activity |-> CurrentActivity,
                eval |-> session.eval_result, outcome |-> session.outcome,
                child |-> session.child,
                updated_child |-> Adapted(session.child, CurrentActivity, session.outcome),
                attempt |-> session.attempt]
    /\ UNCHANGED <<catalog, profiles, logs, history, appended, history0, clock,
                   history_file, snapshots, temps, save>>

\* the locals of a save that starts: nothing opened yet, temp_path unbound
SaveCall(fn, target, data, arg, temps_before) ==
    [fn |-> fn, target |-> target, data |-> data, arg |-> arg, step |-> "open",
     temp_path |-> FALSE, temps_before |-> temps_before]

\* the end of the loop of run_session: save_history(history, history_path)
\* is called
SessionSave ==
    /\ pc = "save"
    /\ pc' = "save_history"
    /\ save' = SaveCall("save_history", "history", JsonFile(DumpHistory(History)),
                        History, temps)
    /\ UNCHANGED <<catalog, profiles, logs, history, last, appended, history0, session,
                   clock, history_file, snapshots, temps>>

\* a caller's save_history(h, path)
SaveHistory(h) ==
    /\ pc = "idle"
    /\ save = NoSave
    /\ Len(temps) < MaxTemps
    /\ save' = SaveCall("save_history", "history", JsonFile(DumpHistory(h)), h, temps)
    /\ UNCHANGED <<catalog, profiles, logs, history, last, appended, history0, pc,
                   session, clock, history_file, snapshots, temps>>

\* a caller's save_child_snapshot(child, path of child.id)
SaveChildSnapshot(child) ==
    /\ pc = "idle"
    /\ save = NoSave
    /\ Len(temps) < MaxTemps
    /\ save' = SaveCall("save_child_snapshot", child.id, <<child>>, child, temps)
    /\ UNCHANGED <<catalog, profiles, logs, history, last, appended, history0, pc,
                   session, clock, history_file, snapshots, temps>>

\* the temporary files without the one the running save created, which is
\* the newest
WithoutOwnTemp == SubSeq(temps, 1, Len(temps) - 1)

\* where a save that returns (or raises OSError) hands control: run_session
\* goes on to save_child_snapshot after save_history and ends after
\* save_child_snapshot, an OSError ends it at once; a caller gets the result
SaveEnds(raised) ==
    IF pc = "save_history"
    THEN IF raised
         THEN /\ pc' = "idle"
              /\ save' = NoSave
              /\ last' = [op |-> "run_session", report |-> "OSError",
                          child_id |-> session.child.id]
         ELSE /\ pc' = "save_snapshot"
              /\ save' = SaveCall("save_child_snapshot", session.child.id,
                                  <<session.child>>, session.child, temps')
              /\ last' = last
    ELSE IF pc = "save_snapshot"
    THEN /\ pc' = "idle"
         /\ save' = NoSave
         /\ last' = [op |-> "run_session",
                     report |-> IF raised THEN "OSError" ELSE "complete",
                     child_id |-> session.child.id]
    ELSE /\ pc' = pc
         /\ save' = NoSave
         /\ last' = [op |-> save.fn, raised |-> raised, arg |-> save.arg]

\* tempfile.NamedTemporaryFile(dir=file_path.parent, delete=False): the
\* temporary file exists, nothing written to it yet
SaveOpen ==
    /\ save.fn # "none"
    /\ save.step = "open"
    /\ temps' = Append(temps, [target |-> save.target, complete |-> FALSE])
    /\ save' = [save EXCEPT !.step = "dump"]
    /\ UNCHANGED <<catalog, profiles, logs, history, last, appended, history0, pc,
                   session, clock, history_file, snapshots>>

\* the directory or the temporary file cannot be created: OSError; the
\* handler finds no temp_path
SaveOpenFails ==
    /\ save.fn # "none"
    /\ save.step = "open"
    /\ temps' = temps
    /\ SaveEnds(TRUE)
    /\ UNCHANGED <<catalog, profiles, logs, history, appended, history0, session,
                   clock, history_file, snapshots>>

\* json.dump wrote everything, temp_path = temp_file.name, the with block
\* closed the file
SaveDump ==
    /\ save.fn # "none"
    /\ save.step = "dump"
    /\ temps' = [temps EXCEPT ![Len(temps)].complete = TRUE]
    /\ save' = [save EXCEPT !.step = "move", !.temp_path = TRUE]
    /\ UNCHANGED <<catalog, profiles, logs, history, last, appended, history0, pc,
                   session, clock, history_file, snapshots>>

\* json.dump raises OSError part-way (the disk is full): the handler finds
\* 'temp_path' not in locals(), as it is assigned after json.dump, and does
\* not unlink; OSError is raised
SaveDumpFails ==
    /\ save.fn # "none"
    /\ save.step = "dump"
    /\ temps' = IF save.temp_path THEN WithoutOwnTemp ELSE temps
    /\ SaveEnds(TRUE)
    /\ UNCHANGED <<catalog, profiles, logs, history, appended, history0, session,
                   clock, history_file, snapshots>>

\* closing the file at the end of the with block raises OSError (the flush
\* fails): temp_path is bound by then, the handler unlinks the file
SaveCloseFails ==
    /\ save.fn # "none"
    /\ save.step = "dump"
    /\ temps' = WithoutOwnTemp
    /\ SaveEnds(TRUE)
    /\ UNCHANGED <<catalog, profiles, logs, history, appended, history0, session,
                   clock, history_file, snapshots>>

\* shutil.move(temp_path, file_path): the rename puts the temporary file in
\* the place of the target in one step
SaveMove ==
    /\ save.fn # "none"
    /\ save.step = "move"
    /\ temps[Len(temps)].complete
    /\ temps' = WithoutOwnTemp
    /\ IF save.fn = "save_history"
       THEN history_file' = save.data /\ UNCHANGED snapshots
       ELSE snapshots' = [snapshots EXCEPT ![save.target] = save.data]
            /\ UNCHANGED history_file
    /\ SaveEnds(FALSE)
    /\ UNCHANGED <<catalog, profiles, logs, history, appended, history0, session, clock>>

\* shutil.move raises OSError: the handler unlinks the temporary file
SaveMoveFails ==
    /\ save.fn # "none"
    /\ save.step = "move"
    /\ temps' = WithoutOwnTemp
    /\ SaveEnds(TRUE)
    /\ UNCHANGED <<catalog, profiles, logs, history, appended, history0, session,
                   clock, history_file, snapshots>>

\* a caller's history = load_history(path), as the caller of
\* run_session_once makes it; after_save holds the history the call before
\* it saved, if that was a save_history that returned
LoadHistory ==
    /\ pc = "idle"
    /\ \E loaded \in {load_history(history_file)} :
          /\ IF loaded.raised
             THEN UNCHANGED <<logs, history>>
             ELSE /\ logs' = LoadedLogs(loaded)
                  /\ history' = LoadedHistory(loaded)
          /\ last' = [op |-> "load_history", file |-> history_file, result |-> loaded,
                      after_save |-> IF last.op = "save_history" /\ ~last.raised
                                     THEN <<last.arg>> ELSE <<>>]
    /\ UNCHANGED <<catalog, profiles, appended, history0, orchestrator>>

\* run_session_once(child_id, activities=catalog, profiles=profiles,
\* history=history) with the answer it obtains: the list new_history it
\* builds is dropped, the copy updated_child and the attempt are returned
RunSessionOnce(child_id) ==
    /\ pc = "idle"
    /\ save = NoSave
    /\ AttemptsLeft >= 1
    /\ \E c \in {FindChild(child_id)} :
          IF c = 0
          THEN /\ last' = [op |-> "run_session_once", raised |-> TRUE,
                           child_id |-> child_id]
               /\ UNCHANGED <<logs, appended, clock>>
          ELSE \E rec \in {recommend_activities(profiles[c], catalog, History, 1)} :
                  IF rec.raised \/ rec.value = <<>>
                  THEN /\ last' = [op |-> "run_session_once", raised |-> TRUE,
                                   child_id |-> child_id]
                       /\ UNCHANGED <<logs, appended, clock>>
                  ELSE \E user_answer \in Answers :
                       \E a \in {AttemptOf(rec.value[1], user_answer)} :
                          /\ logs' = AppendedLogs(logs, history, child_id, a.attempt)
                          /\ appended' = [appended EXCEPT
                                             ![child_id] = Append(@, a.attempt)]
                          /\ clock' = clock + 1
                          /\ last' = [op |-> "attempt", by |-> "run_session_once",
                                      activity |-> rec.value[1], eval |-> a.eval,
                                      outcome |-> a.outcome, child |-> profiles[c],
                                      updated_child |->
                                          Adapted(profiles[c], rec.value[1], a.outcome),
                                      attempt |-> a.attempt,
                                      history_delta |-> <<a.attempt>>,
                                      history_before |-> History]
    /\ UNCHANGED <<catalog, profiles, history, history0, pc, session, history_file,
                   snapshots, temps, save>>

\* the caller of run_session_once goes on with the profile it got back
KeepUpdatedChild ==
    /\ pc = "idle"
    /\ last.op = "attempt"
    /\ last.by = "run_session_once"
    /\ profiles' = [i \in 1..Len(profiles) |->
                       IF i = FindChild(last.child.id) THEN last.updated_child
                       ELSE profiles[i]]
    /\ last' = [op |-> "keep_updated_child"]
    /\ UNCHANGED <<catalog, logs, history, appended, history0, orchestrator>>

\* one call eval_qna(answer, activity)
EvalQna(answer, activity) ==
    /\ last' = [op |-> "eval_qna", answer |-> answer, activity |-> activity,
                result |-> eval_qna(answer, activity)]
    /\ UNCHANGED <<catalog, profiles, logs, history, appended, history0, orchestrator>>

\* one call eval_freeform(text, activity)
EvalFreeform(text, activity) ==
    /\ last' = [op |-> "eval_freeform", text |-> text, activity |-> activity,
                result |-> eval_freeform(text, activity)]
    /\ UNCHANGED <<catalog, profiles, logs, history, appended, history0, orchestrator>>

\* one call choose_outcome_from_eval(result)
ChooseOutcomeFromEval(result) ==
    /\ last' = [op |-> "choose_outcome_from_eval", result |-> result,
                outcome |-> choose_outcome_from_eval(result)]
    /\ UNCHANGED <<catalog, profiles, logs, history, appended, history0, orchestrator>>

\* the catalogs a session runs on: the first n entries of the pool, for
\* no entry, one entry, as many as a session recommends, and all of them
SessionCatalogs == {Pick(1..n, 1) : n \in {0, 1, 3, Min2(PoolSize, Len(Pool))}}

\* the history files a session starts from: none, or one written by
\* save_history with at most one log per learner
SessionFiles ==
    {Absent} \cup
    {JsonFile(DumpHistory(h)) :
        h \in {g \in InitialHistories :
                  /\ g # <<>>
                  /\ \A i, j \in 1..Len(g) : g[i].child_id = g[j].child_id => i = j}}

\* the ids asked of the orchestrator: the two learners, an id no profile
\* has, and no id
RequestedIds == ChildIds \cup {"C9", ""}

\* the caller has loaded the history file, as run_session does and as the
\* caller of run_session_once has to
Init ==
    /\ catalog \in SessionCatalogs
    /\ profiles = <<Learner1, Learner2>>
    /\ history_file \in SessionFiles
    /\ logs = LoadedLogs(load_history(history_file))
    /\ history = LoadedHistory(load_history(history_file))
    /\ history0 = <<>>
    /\ last = NoCall
    /\ appended = [c \in ChildIds |-> <<>>]
    /\ pc = "idle"
    /\ session = NoSession
    /\ clock = MaxTime + 1
    /\ snapshots = [c \in ChildIds |-> <<>>]
    /\ temps = <<>>
    /\ save = NoSave

Next ==
    \/ \E c \in RequestedIds : RunSessionStart(c)
    \/ SessionAnswer
    \/ SessionEvaluate
    \/ SessionClassify
    \/ SessionBuild
    \/ SessionAppend
    \/ SessionAdapt
    \/ SessionSave
    \/ SaveOpen
    \/ SaveOpenFails
    \/ SaveDump
    \/ SaveDumpFails
    \/ SaveCloseFails
    \/ SaveMove
    \/ SaveMoveFails
    \/ \E c \in RequestedIds \ {""} : RunSessionOnce(c)
    \/ KeepUpdatedChild
    \/ last = NoCall /\ \E r \in EvalResults : ChooseOutcomeFromEval(r)

Spec == Init /\ [][Next]_vars

----------------------------------------------------------------------------
(* The evaluators on their own: any calls of eval_qna, eval_freeform and   *)
(* choose_outcome_from_eval a caller can make, on any entry of the pool    *)

InitEvaluate ==
    /\ catalog = Pool
    /\ profiles = <<Learner1, Learner2>>
    /\ logs = <<>>
    /\ history = <<>>
    /\ history0 = <<>>
    /\ last = NoCall
    /\ appended = [c \in ChildIds |-> <<>>]
    /\ OrchestratorIdle

NextEvaluate ==
    \/ \E a \in QnaAnswers, i \in 1..Len(catalog) : EvalQna(a, catalog[i])
    \/ \E t \in FreeTexts, i \in 1..Len(catalog) : EvalFreeform(t, catalog[i])
    \/ \E r \in EvalResults : ChooseOutcomeFromEval(r)

SpecEvaluate == InitEvaluate /\ [][NextEvaluate]_vars

----------------------------------------------------------------------------
(* The persistence functions on their own: any calls of save_history,      *)
(* save_child_snapshot and load_history a caller can make, on any file     *)

\* details as run_session writes them, and as the tests and the seeding
\* script do: text, numbers, truth values, dicts and lists of them
PlainDetails ==
    [eval |-> DictItem([kind |-> StrItem("qna"), correct |-> BoolItem(TRUE),
                        score |-> NumItem(100)]),
     activity |-> StrItem("A1"),
     tags |-> ListItem(<<StrItem("A1"), NumItem(3)>>)]

\* details a caller can build that hold a tuple, or a datetime
TupleDetails == [span |-> TupleItem(<<NumItem(1), NumItem(2)>>)]
DatetimeDetails == [seen |-> DatetimeItem(12)]

PersistAttempt(activity_id, timestamp, outcome, details) ==
    [activity_id |-> activity_id, timestamp |-> timestamp, outcome |-> outcome,
     details |-> details]

\* the histories saved: none, two logs of one learner and an empty log of
\* another, and one log each with the details above
PersistHistories ==
    { <<>>,
      << [child_id |-> "C1",
          attempts |-> << PersistAttempt("A1", 1, "success", PlainDetails),
                          PersistAttempt("A2", 12, "skipped", <<>>) >>],
         [child_id |-> "C2", attempts |-> <<>>],
         [child_id |-> "C1",
          attempts |-> << PersistAttempt("A1", 3, "partial", <<>>) >>] >>,
      << [child_id |-> "C1",
          attempts |-> << PersistAttempt("A1", 2, "struggle", TupleDetails) >>] >>,
      << [child_id |-> "C2",
          attempts |-> << PersistAttempt("A2", 2, "success", DatetimeDetails) >>] >> }

\* the histories whose details hold only what JSON has a form for
RECURSIVE JsonNative(_)
JsonNative(v) ==
    CASE v.class \in {"str", "number", "bool"} -> TRUE
      [] v.class = "dict" -> \A k \in DOMAIN v.val : JsonNative(v.val[k])
      [] v.class = "list" -> \A i \in 1..Len(v.val) : JsonNative(v.val[i])
      [] OTHER -> FALSE

\* records of a history file, good and bad
GoodRecord == DumpSession([child_id |-> "C1",
                           attempts |-> <<PersistAttempt("A1", 1, "success", <<>>)>>])
JAttempt(fields) == JObj([child_id |-> JStr("C1"), attempts |-> JArr(<<JObj(fields)>>)])
BadOutcome ==
    JAttempt([activity_id |-> JStr("A1"), timestamp |-> JStr(FormatTime(1)),
              outcome |-> JStr("done")])
NoTimestamp == JAttempt([activity_id |-> JStr("A1"), outcome |-> JStr("success")])
BadTimestamp ==
    JAttempt([activity_id |-> JStr("A1"), timestamp |-> JStr(TWrong),
              outcome |-> JStr("success")])
ExtraAttemptKey ==
    JAttempt([activity_id |-> JStr("A1"), timestamp |-> JNum(1),
              outcome |-> JStr("success"), score |-> JNum(1)])
NoChildId == JObj([attempts |-> JArr(<<>>)])
ExtraKey == JObj([child_id |-> JStr("C1"), attempts |-> JArr(<<>>), name |-> JStr("C1")])
NotAnObject == JNum(1)
\* a record with the defaults left out, and one with a numeric timestamp
BareRecord == JObj([child_id |-> JStr("C2")])
NumericTimestamp ==
    JAttempt([activity_id |-> JStr("A1"), timestamp |-> JNum(7),
              outcome |-> JStr("skipped")])

BadRecords ==
    {BadOutcome, NoTimestamp, BadTimestamp, ExtraAttemptKey, NoChildId, ExtraKey,
     NotAnObject}

\* files with a record that does not have the shape of a session log: the
\* bad record alone, and after a good one
BadRecordFiles ==
    {JsonFile(JArr(<<b>>)) : b \in BadRecords}
        \cup {JsonFile(JArr(<<GoodRecord, b>>)) : b \in BadRecords}

\* the files load_history finds: none, text that is no JSON, files with bad
\* records, files of good records, and JSON that is no array
PersistFiles ==
    {Absent, Garbage} \cup BadRecordFiles
        \cup {JsonFile(JArr(<<GoodRecord, BareRecord, NumericTimestamp>>)),
              JsonFile(JObj(<<>>)), JsonFile(JNum(1))}

InitPersist ==
    /\ catalog = Pool
    /\ profiles = <<Learner1, Learner2>>
    /\ logs = <<>>
    /\ history = <<>>
    /\ history0 = <<>>
    /\ last = NoCall
    /\ appended = [c \in ChildIds |-> <<>>]
    /\ pc = "idle"
    /\ session = NoSession
    /\ clock = MaxTime + 1
    /\ history_file \in PersistFiles
    /\ snapshots = [c \in ChildIds |-> <<>>]
    /\ temps = <<>>
    /\ save = NoSave

NextPersist ==
    \/ \E h \in PersistHistories : SaveHistory(h)
    \/ SaveChildSnapshot(Learner1)
    \/ SaveOpen
    \/ SaveOpenFails
    \/ SaveDump
    \/ SaveDumpFails
    \/ SaveCloseFails
    \/ SaveMove
    \/ SaveMoveFails
    \/ save = NoSave /\ LoadHistory

SpecPersist == InitPersist /\ [][NextPersist]_vars

----------------------------------------------------------------------------
(* The scoring policy on its own: level_fit called on any activity level   *)
(* and skill list, for learners with skill values on, next to and away     *)
(* from the ends of the bands                                              *)

\* skill values, in hundredths
BandValues == {0, 50, 59, 60, 61, 70, 79, 80, 81, 100}

\* skill lists of one, two and three skills; no learner has a value for
\* "logic"
SkillLists ==
    { <<"math">>, <<"logic">>, <<"math", "reading">>, <<"math", "logic">>,
      <<"math", "reading", "logic">> }

PolicyActivities ==
    {[Pool[1] EXCEPT !.level = l, !.skills = sk] :
        l \in {"easy", "medium", "hard"}, sk \in SkillLists}

PolicyLearners ==
    {[Learner1 EXCEPT !.baseline_skills =
         [sk \in {"math", "reading"} |-> IF sk = "math" THEN m ELSE r]] :
        m \in BandValues, r \in BandValues}

\* one call level_fit(activity, child)
LevelFit(activity, child) ==
    /\ last' = [op |-> "level_fit", activity |-> activity, child |-> child,
                result |-> level_fit(activity, child)]
    /\ UNCHANGED <<catalog, profiles, logs, history, appended, history0, orchestrator>>

InitPolicy ==
    /\ catalog = Pool
    /\ profiles = <<Learner1, Learner2>>
    /\ logs = <<>>
    /\ history = <<>>
    /\ history0 = <<>>
    /\ last = NoCall
    /\ appended = [c \in ChildIds |-> <<>>]
    /\ OrchestratorIdle

\* a call leaves everything as it found it, so each is taken from the
\* initial state
NextPolicy ==
    /\ last = NoCall
    /\ \E a \in PolicyActivities, c \in PolicyLearners : LevelFit(a, c)

SpecPolicy == InitPolicy /\ [][NextPolicy]_vars

----------------------------------------------------------------------------
(* Skill adaptation on its own: one learner attempts one activity again    *)
(* and again, the attempts all succeeding (or being skipped) or all        *)
(* ending in struggle                                                      *)

\* the adaptation of run_session and run_session_once after one attempt
\* of the activity with the outcome: the learner's skills are updated
Adaptation(outcome) ==
    /\ profiles' = <<Adapted(profiles[1], catalog[1], outcome)>>
    /\ last' = [op |-> "adaptation", activity |-> catalog[1], outcome |-> outcome,
                child |-> profiles[1],
                updated_child |-> Adapted(profiles[1], catalog[1], outcome)]
    /\ UNCHANGED <<catalog, logs, history, appended, history0, orchestrator>>

\* the attempts so far, if any, were successes or skipped
Succeeding ==
    IF last.op = "none" THEN TRUE ELSE last.outcome \in {"success", "skipped"}

\* the attempts so far, if any, ended in struggle
Struggling == IF last.op = "none" THEN TRUE ELSE last.outcome = "struggle"

DrillSuccess == Succeeding /\ Adaptation("success")

DrillSkipped == Succeeding /\ Adaptation("skipped")

DrillStruggle == Struggling /\ Adaptation("struggle")

InitDrill ==
    /\ catalog \in {<<Pool[i]>> : i \in 1..Len(Pool)}
    /\ profiles \in {<<Learner1>>, <<Learner2>>}
    /\ logs = <<>>
    /\ history = <<>>
    /\ history0 = <<>>
    /\ last = NoCall
    /\ appended = [c \in ChildIds |-> <<>>]
    /\ OrchestratorIdle

NextDrill == DrillSuccess \/ DrillSkipped \/ DrillStruggle

\* the activity is attempted repeatedly: a run of successes goes on having
\* successes, a run of struggles goes on
SpecDrill ==
    /\ InitDrill
    /\ [][NextDrill]_vars
    /\ WF_vars(DrillSuccess)
    /\ WF_vars(DrillStruggle)

----------------------------------------------------------------------------
(* Claims about the orchestrator, checked under Spec *)

InUnit(baseline_skills) ==
    \A sk \in DOMAIN baseline_skills :
        0 <= baseline_skills[sk] /\ baseline_skills[sk] <= 100

\* the learners whose skills the orchestrator holds: the profiles, the
\* child of the running session, the copy run_session_once returned, the
\* snapshots written
Learners ==
    {profiles[i] : i \in 1..Len(profiles)}
    \cup {session.child}
    \cup (IF last.op = "attempt" /\ last.by = "run_session_once"
          THEN {last.updated_child} ELSE {})
    \cup UNION {{snapshots[c][i] : i \in 1..Len(snapshots[c])} : c \in ChildIds}

\* C1: starting from profiles whose baseline_skills values all lie in
\* [0.0, 1.0], after any sequence of attempts with any outcomes on any
\* activities, processed by the skill adaptation of run_session and
\* run_session_once, every value in baseline_skills, those of newly added
\* skills too, lies in [0.0, 1.0]; and one more adaptation with any
\* outcome (skipped too) on any activity of the catalog keeps it there.
C1_BoundedSkills ==
    \A l \in Learners :
        /\ InUnit(l.baseline_skills)
        /\ \A i \in 1..Len(catalog), o \in Outcomes :
              InUnit(Adapted(l, catalog[i], o).baseline_skills)

\* C1 is exercised: an attempt was adapted whose sum left [0.0, 1.0] and
\* was clamped, and a skill was added.
C1_Witness ==
    /\ last.op = "attempt"
    /\ last.by = "run_session"
    /\ \E i \in 1..Len(last.activity.skills) :
          LET sk == last.activity.skills[i]
          IN  /\ sk \in DOMAIN last.child.baseline_skills
              /\ \/ last.child.baseline_skills[sk] + Delta(last.outcome) > 100
                 \/ last.child.baseline_skills[sk] + Delta(last.outcome) < 0
    /\ DOMAIN session.child.baseline_skills # DOMAIN Learner2.baseline_skills

\* an attempt was just adapted, by run_session or by run_session_once
Attempted == last.op = "attempt"

\* the stored value of a skill, or 0.5 if it is absent
OldOrDefault(baseline_skills, sk) ==
    IF sk \in DOMAIN baseline_skills THEN baseline_skills[sk] ELSE 50

\* the table of the claim: +0.03, +0.01, -0.01, 0.0
DeltaTable ==
    [o \in Outcomes |->
        IF o = "success" THEN 3
        ELSE IF o = "partial" THEN 1
        ELSE IF o = "struggle" THEN 0 - 1 ELSE 0]

\* value + delta, held within [0.0, 1.0]
Clamped(v) == IF v < 0 THEN 0 ELSE IF v > 100 THEN 100 ELSE v

\* the formula of C11 for the skills in the set S
AdaptedByFormula(S) ==
    \A sk \in S :
        LET old == OldOrDefault(last.child.baseline_skills, sk)
            new == last.updated_child.baseline_skills[sk]
        IN  /\ new = Clamped(old + DeltaTable[last.outcome])
            /\ last.outcome = "success" => new >= old
            /\ last.outcome = "struggle" => new <= old

Listed(activity) == {activity.skills[i] : i \in 1..Len(activity.skills)}

ListedOnce(activity) ==
    {sk \in Listed(activity) :
        Cardinality({i \in 1..Len(activity.skills) : activity.skills[i] = sk}) = 1}

\* C11: after one attempt with outcome o on activity a, every skill s
\* listed in a.skills has the new value clamp(old(s) + delta(o), 0.0, 1.0),
\* old(s) being the stored value or 0.5 if s was absent; a success never
\* lowers and a struggle never raises a listed skill.
C11_AdaptationFormula == Attempted => AdaptedByFormula(Listed(last.activity))

\* C11, for the skills an activity lists once: these get the value of the
\* formula.
C11_AdaptationFormulaListedOnce ==
    Attempted => AdaptedByFormula(ListedOnce(last.activity))

\* the profile a learner id starts from
InitialProfile(id) == IF id = "C1" THEN Learner1 ELSE Learner2

\* C12: skill adaptation for an attempt on activity a never removes a key
\* from baseline_skills and leaves the value of every skill not listed in
\* a.skills unchanged; the only keys it adds are skills of a that were
\* absent before; over any sequence of attempts the set of skill keys only
\* grows.
C12_AdaptationFrame ==
    /\ Attempted =>
          LET old == last.child.baseline_skills
              new == last.updated_child.baseline_skills
          IN  /\ DOMAIN old \subseteq DOMAIN new
              /\ \A sk \in (DOMAIN old) \ Listed(last.activity) : new[sk] = old[sk]
              /\ (DOMAIN new) \ (DOMAIN old) \subseteq Listed(last.activity)
    /\ \A l \in Learners :
          DOMAIN InitialProfile(l.id).baseline_skills \subseteq DOMAIN l.baseline_skills

\* C12 is exercised: an attempt added a skill key and left a stored skill
\* it does not list as it was.
C12_Witness ==
    /\ Attempted
    /\ \E sk \in Listed(last.activity) : sk \notin DOMAIN last.child.baseline_skills
    /\ \E sk \in DOMAIN last.child.baseline_skills : sk \notin Listed(last.activity)
    /\ DOMAIN last.updated_child.baseline_skills # DOMAIN last.child.baseline_skills

----------------------------------------------------------------------------
(* Claims about the evaluators: C13 under Spec, C14 and C15 under          *)
(* SpecEvaluate                                                            *)

\* C13: choose_outcome_from_eval maps a qna result to success when
\* score >= 1.0 and to struggle otherwise (never partial), and a freeform
\* or any other-kind result to success when score >= 0.8, partial when
\* 0.5 <= score < 0.8 and struggle otherwise; it never returns skipped, so
\* every attempt that run_session or run_session_once appends to history
\* has an outcome in {success, partial, struggle}.
C13_OutcomeClasses ==
    /\ last.op = "choose_outcome_from_eval" =>
          LET isQna == "kind" \in DOMAIN last.result /\ last.result.kind = "qna"
              score == IF "score" \in DOMAIN last.result THEN last.result.score ELSE 0
              o == last.outcome
          IN  /\ o \in {"success", "partial", "struggle"}
              /\ isQna => /\ o = "success" <=> score >= 100
                          /\ o = "struggle" <=> score < 100
              /\ ~isQna => /\ o = "success" <=> score >= 80
                           /\ o = "partial" <=> 50 <= score /\ score < 80
                           /\ o = "struggle" <=> score < 50
    /\ \A c \in ChildIds : \A i \in 1..Len(appended[c]) :
          appended[c][i].outcome \in {"success", "partial", "struggle"}

\* C13 is exercised: a result of a kind other than qna and freeform with a
\* score between 0.5 and 0.8 was classified.
C13_Witness ==
    /\ last.op = "choose_outcome_from_eval"
    /\ "kind" \in DOMAIN last.result
    /\ last.result.kind = "unknown"
    /\ last.result.score = 79
    /\ last.outcome = "partial"

\* does the entry of rubric.answers match the answer, as C14 says it
MatchesByClaim(answer, entry, tolerance) ==
    \/ /\ answer.class = "number"
       /\ entry.class = "number"
       /\ entry.val - tolerance <= answer.val
       /\ answer.val <= entry.val + tolerance
    \/ /\ answer.class = "str"
       /\ entry.class = "str"
       /\ Lower(Strip(answer.val)) = Lower(Strip(entry.val))

\* C14: eval_qna returns correct=true and score 1.0 exactly when some entry
\* of rubric.answers matches the answer (numbers within numeric_tolerance,
\* default 0.0; strings equal after lower-casing and trimming), correct=false
\* and score 0.0 otherwise; a missing or empty answers list yields
\* correct=false and score 0.0.
C14_QnaCorrectness ==
    last.op = "eval_qna" =>
        LET rubric == last.activity.rubric
            entries == IF "answers" \in DOMAIN rubric THEN rubric.answers ELSE <<>>
            tolerance == IF "numeric_tolerance" \in DOMAIN rubric
                         THEN rubric.numeric_tolerance ELSE 0
            matched == \E i \in 1..Len(entries) :
                           MatchesByClaim(last.answer, entries[i], tolerance)
        IN  /\ last.result.correct = matched
            /\ last.result.score = (IF matched THEN 100 ELSE 0)
            /\ entries = <<>> => ~last.result.correct /\ last.result.score = 0

\* C14 is exercised: a text answer matched an entry it differs from in
\* case and padding.
C14_Witness ==
    /\ last.op = "eval_qna"
    /\ last.result.correct
    /\ last.answer.class = "str"
    /\ \A i \in 1..Len(last.activity.rubric.answers) :
          last.activity.rubric.answers[i] # last.answer

\* the sentences of a text as C15 counts them: the characters that are
\* neither blank nor a period and have only blanks between them and the
\* period before (or the start of the text)
SentenceStarts(text) ==
    {j \in 1..Len(text) :
        /\ text[j] \notin {" ", "."}
        /\ \A i \in 1..(j - 1) :
              (\A m \in i..(j - 1) : text[m] # ".") => text[i] = " "}

\* C15: eval_freeform's score equals 0.6 if the number of non-empty
\* period-separated segments is at least rubric.min_sentences (default 3)
\* and 0.3 otherwise, plus 0.1 per rubric keyword occurring in the text,
\* capped at 0.4; it lies in [0.3, 1.0], is 0.6 at exactly min_sentences
\* sentences with zero hits, 1.0 with min length met and 4 or more hits,
\* and a rubric without keywords gives zero bonus.
C15_FreeformScore ==
    last.op = "eval_freeform" =>
        LET rubric == last.activity.rubric
            min_sentences == IF "min_sentences" \in DOMAIN rubric
                             THEN rubric.min_sentences ELSE 3
            keywords == IF "keywords" \in DOMAIN rubric THEN rubric.keywords ELSE <<>>
            count == Cardinality(SentenceStarts(last.text))
            hits == Cardinality({i \in 1..Len(keywords) :
                        Contains(Lower(Strip(last.text)), Lower(Strip(keywords[i])))})
            bonus == IF hits >= 4 THEN 40 ELSE hits * 10
            score == last.result.score
        IN  /\ score = (IF count >= min_sentences THEN 60 ELSE 30) + bonus
            /\ 30 <= score /\ score <= 100
            /\ count = min_sentences /\ hits = 0 => score = 60
            /\ count >= min_sentences /\ hits >= 4 => score = 100
            /\ keywords = <<>> => score \in {30, 60}

\* C15 is exercised: a text with a blank segment met the minimum length
\* and hit more than 4 keywords.
C15_Witness ==
    /\ last.op = "eval_freeform"
    /\ last.result.keyword_hits > 4
    /\ last.result.meets_min_length
    /\ last.result.score = 100
    /\ Len(Split(last.text)) > Cardinality(SentenceStarts(last.text))

----------------------------------------------------------------------------
(* Claims about the error paths of the orchestrator, checked under Spec *)

\* the id names no profile of the list
ChildAbsent(child_id) ==
    /\ child_id # ""
    /\ \A i \in 1..Len(profiles) : profiles[i].id # child_id

\* the recommender returns the empty list for the learner of that id on
\* the history h
YieldsNothing(child_id, h, k) ==
    \E rec \in {recommend_activities(profiles[SelectChild(child_id)], catalog, h, k)} :
        ~rec.raised /\ rec.value = <<>>

\* a step that is run_session from its call to its first answer or return
RunSessionStarts == pc = "idle" /\ save = NoSave /\ last'.op = "run_session"

\* a step that is a whole call of run_session_once
RunSessionOnceRuns ==
    /\ pc = "idle"
    /\ \/ last'.op = "run_session_once"
       \/ last'.op = "attempt" /\ last'.by = "run_session_once"

\* the id a call of run_session_once was made with
OnceChildId == IF last'.op = "attempt" THEN last'.child.id ELSE last'.child_id

NothingHappens ==
    UNCHANGED <<appended, profiles, clock, history_file, snapshots, temps, save>>

\* C16: when the learner id asked for is absent from the profiles, or the
\* recommender yields no activities, run_session reports it and returns,
\* and run_session_once raises ValueError, before any answer is obtained:
\* no attempt is made, no skill changes, no history file or snapshot or
\* temporary file is written.
C16_NothingToDo ==
    [][/\ RunSessionStarts
          /\ ~load_history(history_file).raised
          /\ \/ ChildAbsent(last'.child_id)
             \/ /\ SelectChild(last'.child_id) # 0
                /\ YieldsNothing(last'.child_id, load_history(history_file).value, 3)
          => /\ last'.report = IF ChildAbsent(last'.child_id)
                               THEN "child not found" ELSE "no activities"
             /\ pc' = "idle"
             /\ Flatten(Deref(logs', history'))
                    = Flatten(load_history(history_file).value)
             /\ NothingHappens
       /\ RunSessionOnceRuns
          /\ \/ ChildAbsent(OnceChildId)
             \/ /\ FindChild(OnceChildId) # 0
                /\ YieldsNothing(OnceChildId, History, 1)
          => /\ last'.op = "run_session_once"
             /\ last'.raised
             /\ pc' = "idle"
             /\ UNCHANGED <<logs, history>>
             /\ NothingHappens]_vars

\* run_session was asked for a learner no profile has, with activities in
\* the catalog and a history on file
C16_Witness ==
    /\ last.op = "run_session"
    /\ last.report = "child not found"
    /\ catalog # <<>>
    /\ history_file # Absent

----------------------------------------------------------------------------
(* Claims about the persistence functions, checked under SpecPersist *)

SaveRunning == save.fn # "none"

\* the content of the file the running save writes to
Target(file, snaps) == IF save.fn = "save_history" THEN file ELSE snaps[save.target]

\* the step ends the running save with OSError
SaveRaises ==
    /\ SaveRunning
    /\ save'.fn = "none"
    /\ IF pc = "idle" THEN last'.op = save.fn /\ last'.raised
       ELSE last'.op = "run_session" /\ last'.report = "OSError"

\* C17: at every step of save_history and save_child_snapshot the target
\* file keeps its content or gets the complete new content, whatever step
\* fails or is the last one taken; a save that fails raises OSError and
\* leaves no temporary file of its own behind.
C17_AtomicSave ==
    [][SaveRunning =>
          /\ \/ Target(history_file', snapshots') = Target(history_file, snapshots)
             \/ Target(history_file', snapshots') = save.data
          /\ SaveRaises => temps' = save.temps_before]_vars

\* load_history was called right after a save_history that returned
LoadedAfterSave == last.op = "load_history" /\ last.after_save # <<>>

\* every value in the details of the attempts of h is one JSON has a form
\* for
JsonDetails(h) ==
    \A i \in 1..Len(h) : \A n \in 1..Len(h[i].attempts) :
        JsonNative(DictItem(h[i].attempts[n].details))

\* C18 as stated: for every history h, load_history after save_history(h)
\* returns as many logs in the same order, each with the same child_id
\* and the same attempts in the same order (activity_id, timestamp,
\* outcome, details).
C18_RoundTrip ==
    LoadedAfterSave =>
        /\ ~last.result.raised
        /\ last.result.value = last.after_save[1]

\* C18: for every history h whose details hold only text, numbers, truth
\* values and dicts and lists of them, load_history after save_history(h)
\* returns as many logs in the same order, each with the same child_id
\* and the same attempts in the same order (activity_id, timestamp,
\* outcome, details); for every other history it returns as many logs
\* with the same child_id, activity_id, timestamp and outcome.
C18_RoundTripOfJsonDetails ==
    LoadedAfterSave =>
        /\ ~last.result.raised
        /\ JsonDetails(last.after_save[1]) => last.result.value = last.after_save[1]
        /\ Len(last.result.value) = Len(last.after_save[1])
        /\ \A i \in 1..Len(last.result.value) :
              /\ last.result.value[i].child_id = last.after_save[1][i].child_id
              /\ Len(last.result.value[i].attempts)
                    = Len(last.after_save[1][i].attempts)
              /\ \A n \in 1..Len(last.result.value[i].attempts) :
                    \A f \in {"activity_id", "timestamp", "outcome"} :
                        last.result.value[i].attempts[n][f]
                            = last.after_save[1][i].attempts[n][f]

\* a history of three logs, with nested details and a timestamp of two
\* digits, was saved and loaded
C18_Witness ==
    /\ LoadedAfterSave
    /\ Len(last.after_save[1]) = 3
    /\ JsonDetails(last.after_save[1])
    /\ last.result.value = last.after_save[1]

\* C19: load_history returns the empty history, with no error, when there
\* is no file; when the file is no JSON, or holds a record that is not of
\* the shape of a session log with its attempts, it raises ValueError and
\* returns nothing, not even the records before the bad one.
C19_LoadFailsWhole ==
    last.op = "load_history" =>
        /\ last.file = Absent => last.result = Returns(<<>>)
        /\ last.file = Garbage \/ last.file \in BadRecordFiles =>
              last.result = Raises("ValueError")

\* a file with a good record followed by one of an unknown outcome was
\* loaded
C19_Witness ==
    /\ last.op = "load_history"
    /\ last.file = JsonFile(JArr(<<GoodRecord, BadOutcome>>))
    /\ last.result.raised

----------------------------------------------------------------------------
(* Claims about the order of the steps of run_session, checked under Spec *)

\* the order claimed: per activity answer, evaluate, classify, build,
\* append, adapt; the saves after the last pass, history before snapshot
ClaimedOrder ==
    { <<"idle", "answer">>, <<"answer", "evaluate">>, <<"evaluate", "classify">>,
      <<"classify", "build">>, <<"build", "append">>, <<"append", "adapt">>,
      <<"adapt", "answer">>, <<"adapt", "save">>, <<"save", "save_history">>,
      <<"save_history", "save_snapshot">>, <<"save_history", "idle">>,
      <<"save_snapshot", "idle">> }

\* the attempts of the learner in the history h, in order
OfLearner(h, child_id) ==
    Flatten(SelectSeq(h, LAMBDA session_log : session_log.child_id = child_id))

\* the skills after the first n of the activities are attempted with the
\* outcomes of the attempts
RECURSIVE AdaptedThrough(_, _, _, _)
AdaptedThrough(child, activities, attempts, n) ==
    IF n = 0 THEN child
    ELSE Adapted(AdaptedThrough(child, activities, attempts, n - 1),
                 activities[n], attempts[n].outcome)

\* the session run by run_session ends with both files written
SessionCompletes ==
    /\ pc = "save_snapshot"
    /\ last'.op = "run_session"
    /\ last'.report = "complete"

\* the new attempts of the learner in the history file: what follows the
\* attempts the history held when the session loaded it
NewAttempts(file, child_id) ==
    SubSeq(OfLearner(load_history(file).value, child_id),
           Len(OfLearner(session.loaded, child_id)) + 1,
           Len(OfLearner(load_history(file).value, child_id)))

\* C20: in run_session the steps of each recommended activity come in the
\* order answer, evaluate, classify, build attempt, append, adapt; the
\* history file and the snapshots are written only after the passes, the
\* history first; when the session completes, the history file holds the
\* attempts it held plus one new attempt of the learner for each
\* recommended activity, in the order recommended, and the snapshot holds
\* the skills after the updates of all of them.
C20_SessionOrder ==
    [][/\ pc' # pc => <<pc, pc'>> \in ClaimedOrder
       /\ session'.user_answer # session.user_answer => pc \in {"answer", "adapt", "idle"}
       /\ appended' # appended /\ pc # "idle" =>
             /\ pc = "append"
             /\ appended'[session.child.id]
                    = Append(appended[session.child.id], session.attempt)
             /\ session.attempt.activity_id = CurrentActivity.id
             /\ session.attempt.outcome
                    = choose_outcome_from_eval(Evaluate(session.user_answer,
                                                        CurrentActivity))
       /\ session'.child # session.child /\ pc # "idle" =>
             /\ pc = "adapt"
             /\ Len(appended[session.child.id]) > 0
             /\ appended[session.child.id][Len(appended[session.child.id])]
                    = session.attempt
       /\ history_file' # history_file =>
             /\ pc = "save_history"
             /\ session.position = Len(session.recommended) + 1
       /\ snapshots' # snapshots =>
             /\ pc = "save_snapshot"
             /\ load_history(history_file).value = History
       /\ SessionCompletes =>
             /\ ~load_history(history_file').raised
             /\ Len(load_history(history_file').value) >= Len(session.loaded)
             /\ \A c \in ChildIds \ {session.child.id} :
                    OfLearner(load_history(history_file').value, c)
                        = OfLearner(session.loaded, c)
             /\ SubSeq(OfLearner(load_history(history_file').value, session.child.id),
                       1, Len(OfLearner(session.loaded, session.child.id)))
                    = OfLearner(session.loaded, session.child.id)
             /\ Len(NewAttempts(history_file', session.child.id))
                    = Len(session.recommended)
             /\ \A n \in 1..Len(session.recommended) :
                    NewAttempts(history_file', session.child.id)[n].activity_id
                        = session.recommended[n].id
             /\ snapshots'[session.child.id]
                    = <<AdaptedThrough(profiles[FindChild(session.child.id)],
                                       session.recommended,
                                       NewAttempts(history_file', session.child.id),
                                       Len(session.recommended))>>]_vars

\* a session of three activities, started on a history with attempts of
\* the learner, has written the history file and the snapshot
C20_Witness ==
    /\ last.op = "run_session"
    /\ last.report = "complete"
    /\ Len(session.recommended) = 3
    /\ OfLearner(session.loaded, session.child.id) # <<>>
    /\ snapshots[session.child.id] # <<>>

----------------------------------------------------------------------------
(* Claims about the selection of the recommender, checked under            *)
(* SpecRecommend                                                           *)

Min3(a, b, c) == Min2(a, Min2(b, c))

\* the score the scoring step gives the catalog entry at position i
ScoreAt(i) == total_score(catalog[i], last.child, LogItems(History))

\* the place of the catalog entry at position i in descending score
\* order, entries of equal score in catalog order
PlaceOf(i) ==
    Cardinality({j \in 1..Len(catalog) :
                    \/ ScoreAt(j) > ScoreAt(i)
                    \/ ScoreAt(j) = ScoreAt(i) /\ j < i}) + 1

\* the catalog entry of the given place
Placed(place) == catalog[CHOOSE i \in 1..Len(catalog) : PlaceOf(i) = place]

InCatalog(activity) == \E i \in 1..Len(catalog) : catalog[i] = activity

\* C21: for k >= 1 and a catalog of n activities (their ids unique),
\* recommend_activities returns exactly min(k, 3, n) pairwise distinct
\* activities of the catalog; when the diversity pass substitutes nothing
\* they are the first min(k, 3, n) in descending score order, activities
\* of equal score in catalog order.
C21_TopOfRanking ==
    last.op = "recommend_activities" /\ last.k >= 1 =>
        /\ ~last.result.raised
        /\ Len(last.result.value) = Min3(last.k, 3, Len(catalog))
        /\ \A p \in 1..Len(last.result.value) :
              /\ InCatalog(last.result.value[p])
              /\ \A q \in 1..(p - 1) : last.result.value[q] # last.result.value[p]
        /\ ~last.result.substituted =>
              \A p \in 1..Len(last.result.value) : last.result.value[p] = Placed(p)

\* three activities were returned from a catalog in which two of equal
\* score are not in the places their catalog positions have, with no
\* substitution
C21_Witness ==
    /\ last.op = "recommend_activities"
    /\ last.k >= 3
    /\ ~last.result.raised
    /\ ~last.result.substituted
    /\ Len(last.result.value) = 3
    /\ \E i, j \in 1..Len(catalog) : i # j /\ ScoreAt(i) = ScoreAt(j) /\ PlaceOf(i) <= 3
    /\ \E i \in 1..Len(catalog) : PlaceOf(i) # i

\* the types of the activities of a list of scored activities
SelectedTypes(selection) == {selection[i].val.type : i \in 1..Len(selection)}

\* the positions, among the candidates after the selection, of those
\* whose type no selected activity has
Others(top, rest) == {i \in 1..Len(rest) : rest[i].val.type \notin SelectedTypes(top)}

\* C22: the diversity pass changes the top-k selection only when all
\* selected activities share one type and the catalog has more than k
\* activities; it then replaces one lowest-scored selected activity by
\* the first activity after the selection, in sorted order, whose type
\* differs, which goes to the end of the selection; if no later activity
\* has another type, the selection stays as it is.
C22_OneSubstitution ==
    last.op = "recommend_activities" /\ ~last.result.raised =>
        LET top == SliceTo(last.scored, last.k)
            rest == SliceFrom(last.scored, last.k)
        IN  /\ last.diverse # top =>
                  /\ Cardinality(SelectedTypes(top)) = 1
                  /\ Len(catalog) > last.k
            /\ last.result.substituted <=> last.diverse # top
            /\ Cardinality(SelectedTypes(top)) = 1 /\ Len(catalog) > last.k =>
                  IF Others(top, rest) = {}
                  THEN last.diverse = top
                  ELSE /\ Len(last.diverse) = Len(top)
                       /\ \E i \in 1..Len(top) :
                             /\ \A j \in 1..Len(top) : top[i].key <= top[j].key
                             /\ SubSeq(last.diverse, 1, Len(top) - 1)
                                    = SubSeq(top, 1, i - 1) \o SubSeq(top, i + 1, Len(top))
                       /\ \E f \in Others(top, rest) :
                             /\ \A g \in Others(top, rest) : f <= g
                             /\ last.diverse[Len(top)] = rest[f]

\* a selection of two or more activities of one type had its lowest-scored
\* activity, which is not its last, replaced
C22_Witness ==
    /\ last.op = "recommend_activities"
    /\ ~last.result.raised
    /\ last.k >= 2
    /\ last.diverse # SliceTo(last.scored, last.k)
    /\ last.diverse[1] # last.scored[1]

\* a selection of one type stayed as it was, no later activity having
\* another type
C22_Unchanged ==
    /\ last.op = "recommend_activities"
    /\ last.k >= 1
    /\ Len(catalog) > last.k
    /\ Cardinality(SelectedTypes(SliceTo(last.scored, last.k))) = 1
    /\ last.diverse = SliceTo(last.scored, last.k)

\* the history without the attempts of the activity
WithoutAttemptsOf(h, activity_id) ==
    [i \in 1..Len(h) |->
        [child_id |-> h[i].child_id,
         attempts |-> SelectSeq(h[i].attempts, LAMBDA at : at.activity_id # activity_id)]]

\* the fallback score of the catalog entry at position i: its score on
\* the history without its own attempts
RelaxedAt(i) ==
    total_score(catalog[i], last.child,
                LogItems(WithoutAttemptsOf(History, catalog[i].id)))

\* the place of the catalog entry at position i in descending order of
\* fallback score, entries of equal score in catalog order
RelaxedPlaceOf(i) ==
    Cardinality({j \in 1..Len(catalog) :
                    \/ RelaxedAt(j) > RelaxedAt(i)
                    \/ RelaxedAt(j) = RelaxedAt(i) /\ j < i}) + 1

\* C23: the fallback of recommend_activities runs exactly when fewer than
\* 2 activities are selected after the diversity pass; every catalog
\* activity is then scored against the history without its own attempts,
\* a score with no recency penalty in it, and the result is the top
\* min(k, 3) activities by that score (none if that is not positive).
C23_Fallback ==
    last.op = "recommend_activities" /\ ~last.result.raised /\ catalog # <<>> =>
        /\ last.result.fallback <=> Len(last.diverse) < 2
        /\ last.result.fallback =>
              /\ Len(last.relaxed) = Len(catalog)
              /\ \A i \in 1..Len(catalog) :
                    /\ last.relaxed[RelaxedPlaceOf(i)].val = catalog[i]
                    /\ last.relaxed[RelaxedPlaceOf(i)].key = RelaxedAt(i)
                    /\ RelaxedAt(i) = total_score(catalog[i], last.child, <<>>)
              /\ Len(last.result.value)
                    = Max2(0, Min3(last.k, 3, Len(catalog)))
              /\ \A p \in 1..Len(last.result.value) :
                    last.result.value[p] = last.relaxed[p].val

\* the fallback ran for k = 1 on a catalog of several activities, the
\* activity returned being among the 2 most recent attempts
C23_Witness ==
    /\ last.op = "recommend_activities"
    /\ last.k = 1
    /\ Len(catalog) >= 3
    /\ last.result.fallback
    /\ Len(last.result.value) = 1
    /\ Recent(last.result.value[1].id)

----------------------------------------------------------------------------
(* Claims about the scoring policy, checked under SpecPolicy *)

\* the learner's values for the skills of the activity, 0.5 for a skill
\* the learner has no value for, in hundredths
ValuesFor(activity, child) ==
    [i \in 1..Len(activity.skills) |->
        IF activity.skills[i] \in DOMAIN child.baseline_skills
        THEN child.baseline_skills[activity.skills[i]] ELSE 50]

\* the mean of the values is below, within, above the band from 0.6 to 0.8
MeanBelow(values) == SumSeq(values) < 60 * Len(values)
MeanAbove(values) == SumSeq(values) > 80 * Len(values)
MeanWithin(values) == ~MeanBelow(values) /\ ~MeanAbove(values)

\* C24: level_fit is 1.0, 0.7 or 0.4 by the band of the mean m of the
\* learner's values for the activity's skills (0.5 for a missing skill):
\* easy 1.0 if m < 0.6, 0.7 if 0.6 <= m <= 0.8, 0.4 if m > 0.8; medium
\* 1.0 if 0.6 <= m <= 0.8 and 0.7 otherwise; hard 1.0 if m > 0.8, 0.7 if
\* 0.6 <= m <= 0.8, 0.4 if m < 0.6.
C24_LevelBands ==
    last.op = "level_fit" =>
        LET values == ValuesFor(last.activity, last.child)
        IN  last.result =
               CASE last.activity.level = "easy" ->
                       IF MeanBelow(values) THEN 600
                       ELSE IF MeanWithin(values) THEN 420 ELSE 240
                 [] last.activity.level = "medium" ->
                       IF MeanWithin(values) THEN 600 ELSE 420
                 [] last.activity.level = "hard" ->
                       IF MeanAbove(values) THEN 600
                       ELSE IF MeanWithin(values) THEN 420 ELSE 240

\* level_fit of a medium activity of three skills, one of them missing,
\* whose mean is exactly 0.6
C24_Witness ==
    /\ last.op = "level_fit"
    /\ last.activity.level = "medium"
    /\ Len(last.activity.skills) = 3
    /\ SumSeq(ValuesFor(last.activity, last.child)) = 180
    /\ last.result = 600

----------------------------------------------------------------------------
(* Claims about the recommender for k <= 0, checked under SpecRecommend *)

\* C25: recommend_activities is total in k: for every non-empty catalog
\* and every k <= 0 it returns a list, the empty list for k = 0, and
\* raises no exception.
C25_TotalInK ==
    last.op = "recommend_activities" /\ last.k <= 0 /\ catalog # <<>> =>
        /\ ~last.result.raised
        /\ last.k = 0 => last.result.value = <<>>

----------------------------------------------------------------------------
(* Claims about run_session_once and its arguments, checked under Spec *)

OnceReturned == last.op = "attempt" /\ last.by = "run_session_once"

\* C26: run_session_once does not modify its arguments: when it has
\* returned, the caller's profile of the learner has the skills it had
\* and the caller's history holds the logs and attempts it held, the new
\* attempt being in the history_delta returned only, whether or not the
\* history had a log of the learner.
C26_ArgumentsUnchanged ==
    OnceReturned =>
        /\ profiles[FindChild(last.child.id)] = last.child
        /\ History = last.history_before
        /\ last.history_delta = <<last.attempt>>

\* The part of C26 the code keeps: the profile is never modified, and the
\* history is not when it has no log of the learner.
C26_ProfileUnchanged ==
    OnceReturned =>
        /\ profiles[FindChild(last.child.id)] = last.child
        /\ last.updated_child.baseline_skills # last.child.baseline_skills =>
              profiles[FindChild(last.child.id)] # last.updated_child
        /\ (\A i \in 1..Len(last.history_before) :
                last.history_before[i].child_id # last.child.id) =>
              History = last.history_before

----------------------------------------------------------------------------
(* Claims about grading and classifying together, checked under            *)
(* SpecEvaluate                                                            *)

\* the sentences of the graded text, counted on the text itself
SentenceCount == Cardinality(SentenceStarts(last.text))

\* the keywords of the graded activity's rubric
RubricKeywords ==
    IF "keywords" \in DOMAIN last.activity.rubric
    THEN last.activity.rubric.keywords ELSE <<>>

\* the keywords of the rubric found in the graded text
KeywordsHit ==
    Cardinality({i \in 1..Len(RubricKeywords) :
        Contains(Lower(Strip(last.text)), Lower(Strip(RubricKeywords[i])))})

MinSentences ==
    IF "min_sentences" \in DOMAIN last.activity.rubric
    THEN last.activity.rubric.min_sentences ELSE 3

\* C27: a freeform answer graded by eval_freeform and classified by
\* choose_outcome_from_eval is success only if it has the minimum number of
\* sentences and hits at least 2 rubric keywords; an answer below the
\* minimum is never success and is partial only with at least 2 hits; with
\* a rubric without keywords the outcome is never success.
C27_FreeformOutcome ==
    last.op = "eval_freeform" =>
        LET outcome == choose_outcome_from_eval(last.result)
        IN  /\ outcome = "success" =>
                  SentenceCount >= MinSentences /\ KeywordsHit >= 2
            /\ SentenceCount < MinSentences =>
                  /\ outcome # "success"
                  /\ outcome = "partial" => KeywordsHit >= 2
            /\ RubricKeywords = <<>> => outcome # "success"

\* C27 is exercised: an answer below the minimum sentence count that hits
\* two keywords or more was graded and is classified partial.
C27_Witness ==
    /\ last.op = "eval_freeform"
    /\ SentenceCount < MinSentences
    /\ KeywordsHit >= 2
    /\ choose_outcome_from_eval(last.result) = "partial"

\* an answer with the minimum sentence count and two hits is success
C27_WitnessSuccess ==
    /\ last.op = "eval_freeform"
    /\ SentenceCount >= MinSentences
    /\ KeywordsHit = 2
    /\ choose_outcome_from_eval(last.result) = "success"

----------------------------------------------------------------------------
(* Claims about the recommendation of a single activity, checked under     *)
(* SpecRecommend                                                           *)

\* the score of the catalog entry at position i with no recency penalty
RecencyFree(i) == total_score(catalog[i], last.child, <<>>)

\* the first catalog position of the highest score without recency penalty
BestPosition ==
    CHOOSE i \in 1..Len(catalog) :
        \A j \in 1..Len(catalog) :
            \/ RecencyFree(j) < RecencyFree(i)
            \/ RecencyFree(j) = RecencyFree(i) /\ i <= j

\* C28: for k = 1 and a catalog of at least 2 activities the fallback
\* always runs, and recommend_activities returns exactly the activity with
\* the highest score without recency penalty, the first in catalog order
\* among ties, whether or not the diversity pass substituted and whether
\* or not that activity is among the 2 most recent attempts.
C28_SingleRecommendation ==
    last.op = "recommend_activities" /\ last.k = 1 /\ Len(catalog) >= 2 =>
        /\ ~last.result.raised
        /\ last.result.fallback
        /\ last.result.value = <<catalog[BestPosition]>>

\* C28 is exercised: for k = 1 the diversity pass put an activity of
\* another type in the place of the best one, which is among the 2 most
\* recent attempts, and the call returned the best one.
C28_Witness ==
    /\ last.op = "recommend_activities"
    /\ last.k = 1
    /\ Len(catalog) >= 2
    /\ last.result.substituted
    /\ Len(last.diverse) = 1
    /\ last.diverse[1].val # catalog[BestPosition]
    /\ Recent(catalog[BestPosition].id)
    /\ last.result.value = <<catalog[BestPosition]>>

----------------------------------------------------------------------------
(* Claims about repeated attempts of one activity, checked under SpecDrill *)

\* the value of the skill before and after the adaptation of a step
SkillBefore(sk) == OldOrDefault(last'.child.baseline_skills, sk)
SkillAfter(sk) == last'.updated_child.baseline_skills[sk]

\* one more attempt moves every skill of the activity as claimed
DrillStep ==
    \A sk \in Listed(last'.activity) :
        /\ last'.outcome = "success" =>
              /\ SkillBefore(sk) < 100 => SkillAfter(sk) > SkillBefore(sk)
              /\ SkillBefore(sk) = 100 => SkillAfter(sk) = 100
        /\ last'.outcome = "skipped" /\ SkillBefore(sk) = 100 =>
              SkillAfter(sk) = 100
        /\ last'.outcome = "struggle" =>
              /\ SkillBefore(sk) > 0 => SkillAfter(sk) < SkillBefore(sk)
              /\ SkillBefore(sk) = 0 => SkillAfter(sk) = 0

\* every skill of the activity has the value in the learner's profile
SkillsAllAt(value) ==
    \A sk \in Listed(catalog[1]) :
        /\ sk \in DOMAIN profiles[1].baseline_skills
        /\ profiles[1].baseline_skills[sk] = value

\* C29: if the same activity is attempted repeatedly with outcome success,
\* each of its skills strictly increases on every attempt until it is 1.0,
\* which it is after finitely many attempts, and stays 1.0 as long as the
\* outcomes are success or skipped; repeated struggle outcomes drive each
\* of its skills down to 0.0, where it stays.
C29_RepeatedAttempts ==
    /\ [][DrillStep]_vars
    /\ (last.op = "adaptation" /\ Succeeding) ~> [](SkillsAllAt(100))
    /\ (last.op = "adaptation" /\ Struggling) ~> [](SkillsAllAt(0))

\* C29 is exercised: a skill that started below 1.0 has reached 1.0, and
\* one more attempt, a skipped one, has left it at 1.0.
C29_Witness ==
    /\ last.op = "adaptation"
    /\ last.outcome = "skipped"
    /\ SkillsAllAt(100)
    /\ \A sk \in Listed(catalog[1]) :
          /\ OldOrDefault(last.child.baseline_skills, sk) = 100
          /\ OldOrDefault(InitialProfile(profiles[1].id).baseline_skills, sk) < 100

\* a skill that started above 0.0 has been driven down to 0.0
C29_WitnessStruggle ==
    /\ last.op = "adaptation"
    /\ last.outcome = "struggle"
    /\ SkillsAllAt(0)
    /\ \E sk \in Listed(catalog[1]) :
          OldOrDefault(InitialProfile(profiles[1].id).baseline_skills, sk) = 99

----------------------------------------------------------------------------
(* Claims about the answers of a session, checked under Spec *)

\* the entries of rubric.answers of the activity
AnswersOf(activity) ==
    IF "answers" \in DOMAIN activity.rubric THEN activity.rubric.answers ELSE <<>>

\* a qna activity whose rubric.answers are numbers, all of them
NumericQna(activity) ==
    /\ activity.format = "qna"
    /\ AnswersOf(activity) # <<>>
    /\ \A i \in 1..Len(AnswersOf(activity)) : AnswersOf(activity)[i].class = "number"

\* the loop of run_session has graded the answer of the current pass
Graded == pc \in {"classify", "build", "append", "adapt"}

\* the loop of run_session has classified the answer of the current pass
Classified == pc \in {"build", "append", "adapt"}

C30_WitnessOnce ==
    /\ Attempted
    /\ last.by = "run_session_once"
    /\ NumericQna(last.activity)
    /\ last.outcome = "struggle"

=============================================================================
